---------------------------- MODULE Spec2Model ----------------------------
(***************************************************************************)
(* Schema knowledge graph of agentic-text2sql: the introspection pass      *)
(* (catalog rows -> SchemaGraph, with foreign keys inferred from naming),  *)
(* the graph store writer (store_schema_in_neo4j) acting on a model of the *)
(* graph store that evaluates the Cypher statements the code issues, and   *)
(* the two readers of the store (find_relevant_schema, get_schema_context).*)
(*                                                                         *)
(* Strings are TLA+ strings; a character is a string of length 1.          *)
(* Similarity scores are integers: fuzz.ratio is a percentage 0..100, and  *)
(* the floats score = ratio / 100.0 and score * 1.2 are held in            *)
(* thousandths (10 * ratio and 12 * ratio).                                *)
(***************************************************************************)
EXTENDS Integers, Sequences, FiniteSets, Bags, TLC

VARIABLES
    \* ---- graph store (Neo4j) and the store_schema_in_neo4j calls
    gnodes,     \* node instances of the graph store
    grels,      \* relationship instances, a bag of [src, tgt, type, properties]
    held,       \* the store contents when the pass or call in progress began
    clock,      \* wall clock read by datetime.utcnow()
    multi,      \* settings.support_multiple_databases
    st,         \* the store call in progress: [pc, db, g, i, issued]
    hist,       \* completed store calls, each with the store contents it left
    \* ---- one introspect_oracle_schema call
    ipc,        \* position in introspect_oracle_schema
    cat,        \* the rows the catalog queries return
    idb,        \* database_name of the call
    infer,      \* settings.enable_fk_inference
    inodes,     \* nodes
    irels,      \* relationships
    itab,       \* index of the table whose columns are read next
    \* ---- node id construction
    obj,        \* a pair of schema objects
    oid,        \* the ids they receive
    \* ---- clients of the graph store
    ws,         \* concurrent store_schema_in_neo4j calls, one record per caller
    rd,         \* the read (search or context) that has just returned
    hc,         \* the call of a helper of the inference pass that has just returned
    \* ---- the process
    matcher     \* the class fuzzywuzzy bound to SequenceMatcher at import

storeVars == <<gnodes, grels, held, clock, multi, st, hist>>
inferVars == <<ipc, cat, idb, infer, inodes, irels, itab>>
idVars    == <<obj, oid>>
clientVars == <<ws, rd, hc>>
vars      == <<gnodes, grels, held, clock, multi, st, hist,
               ipc, cat, idb, infer, inodes, irels, itab, obj, oid, ws, rd, hc, matcher>>

-----------------------------------------------------------------------------
(* Strings *)

Max(a, b) == IF a >= b THEN a ELSE b
Min(a, b) == IF a <= b THEN a ELSE b

Char(s, i) == SubSeq(s, i, i)

LowerAlphabet == "abcdefghijklmnopqrstuvwxyz"
UpperAlphabet == "ABCDEFGHIJKLMNOPQRSTUVWXYZ"

LowerLetters == { Char(LowerAlphabet, i) : i \in 1..Len(LowerAlphabet) }

UpperChar(c) ==
    IF c \in LowerLetters
    THEN Char(UpperAlphabet, CHOOSE i \in 1..Len(LowerAlphabet) : Char(LowerAlphabet, i) = c)
    ELSE c

\* str.upper()
RECURSIVE Upper(_)
Upper(s) ==
    IF Len(s) = 0 THEN ""
    ELSE UpperChar(Char(s, 1)) \o Upper(SubSeq(s, 2, Len(s)))

\* str.startswith / str.endswith / the `in` operator on strings
StartsWith(s, p) == Len(p) <= Len(s) /\ SubSeq(s, 1, Len(p)) = p
EndsWith(s, x)   == Len(x) <= Len(s) /\ SubSeq(s, Len(s) - Len(x) + 1, Len(s)) = x
Contains(s, sub) == \E i \in 0..(Len(s) - Len(sub)) : SubSeq(s, i + 1, i + Len(sub)) = sub

\* str.replace(old, ""): every occurrence of old removed, left to right
RECURSIVE RemoveAll(_, _)
RemoveAll(s, old) ==
    IF Len(s) = 0 \/ Len(old) = 0 THEN s
    ELSE IF StartsWith(s, old) THEN RemoveAll(SubSeq(s, Len(old) + 1, Len(s)), old)
    ELSE Char(s, 1) \o RemoveAll(SubSeq(s, 2, Len(s)), old)

\* str.split(sep): the pieces between the occurrences of sep
RECURSIVE SplitFrom(_, _, _)
SplitFrom(s, sep, piece) ==
    IF Len(s) = 0 THEN <<piece>>
    ELSE IF StartsWith(s, sep) THEN <<piece>> \o SplitFrom(SubSeq(s, Len(sep) + 1, Len(s)), sep, "")
    ELSE SplitFrom(SubSeq(s, 2, Len(s)), sep, piece \o Char(s, 1))
Split(s, sep) == SplitFrom(s, sep, "")

-----------------------------------------------------------------------------
(* fuzz.ratio: 100 * 2 * M / (len(a) + len(b)) rounded to an integer, M the *)
(* number of matching characters.  fuzzywuzzy binds SequenceMatcher when it *)
(* is imported: to difflib's class, or to the StringMatcher of              *)
(* python-Levenshtein when that package is installed.  The repository       *)
(* names neither, so `matcher` is either one, fixed for the life of the     *)
(* process.                                                                 *)

Matchers == { "difflib", "StringMatcher" }

\* the length of the common run of a and b that starts at a[i], b[j] and stays
\* inside a[..ahi], b[..bhi]
RECURSIVE RunLength(_, _, _, _, _, _)
RunLength(a, b, i, j, ahi, bhi) ==
    IF i > ahi \/ j > bhi THEN 0
    ELSE IF Char(a, i) # Char(b, j) THEN 0
    ELSE 1 + RunLength(a, b, i + 1, j + 1, ahi, bhi)

\* the blocks a[i..i+k-1] = b[j..j+k-1] inside the two windows, as <<k, i, j>>,
\* each as long as it can be made from its start
Blocks(a, b, alo, ahi, blo, bhi) ==
    { << RunLength(a, b, p[1], p[2], ahi, bhi), p[1], p[2] >> :
        p \in { q \in (alo..ahi) \X (blo..bhi) : Char(a, q[1]) = Char(b, q[2]) } }

\* of the longest blocks the one that starts earliest in a, and of those the
\* one that starts earliest in b; (alo, blo, 0) when there is no block
BestBlock(blocks, alo, blo) ==
    IF blocks = {} THEN [i |-> alo, j |-> blo, k |-> 0]
    ELSE CHOOSE m \in { [i |-> x[2], j |-> x[3], k |-> x[1]] : x \in blocks } :
           \A x \in blocks :
              \/ x[1] < m.k
              \/ x[1] = m.k /\ (m.i < x[2] \/ (m.i = x[2] /\ m.j <= x[3]))

\* difflib find_longest_match(alo, ahi, blo, bhi), no junk
FindLongestMatch(a, b, alo, ahi, blo, bhi) ==
    CHOOSE m \in { BestBlock(blocks, alo, blo) :
                    blocks \in { Blocks(a, b, alo, ahi, blo, bhi) } } : TRUE

\* difflib get_matching_blocks: the longest block, then the same to its left
\* and to its right; the sum of the block lengths
RECURSIVE MatchingBlocks(_, _, _, _, _, _)
MatchingBlocks(a, b, alo, ahi, blo, bhi) ==
    IF alo > ahi \/ blo > bhi THEN 0
    ELSE CHOOSE total \in
           { IF m.k = 0 THEN 0
             ELSE m.k + MatchingBlocks(a, b, alo, m.i - 1, blo, m.j - 1)
                      + MatchingBlocks(a, b, m.i + m.k, ahi, m.j + m.k, bhi) :
               m \in { FindLongestMatch(a, b, alo, ahi, blo, bhi) } } : TRUE

\* one row of the dynamic programme from the row above it (prev), for the
\* character ch of a: cell j is the longest common subsequence length of the
\* prefix of a ending in ch and the first j characters of b
LcsRow(ch, b, prev) ==
    [j \in 1..Len(b) |->
        LET hits == { k \in 1..j : Char(b, k) = ch }
            last == CHOOSE k \in hits : \A h \in hits : h <= k
        IN  IF hits = {} THEN prev[j]
            ELSE Max(prev[j], (IF last = 1 THEN 0 ELSE prev[last - 1]) + 1)]

RECURSIVE LcsRows(_, _, _, _)
LcsRows(a, b, prev, i) ==
    IF i > Len(a) THEN prev
    ELSE LcsRows(a, b, LcsRow(Char(a, i), b, prev), i + 1)

\* StringMatcher: Levenshtein.ratio counts the characters an edit script of
\* insertions and deletions keeps, the longest common subsequence
Lcs(a, b) ==
    IF Len(a) = 0 \/ Len(b) = 0 THEN 0
    ELSE LcsRows(a, b, [j \in 1..Len(b) |-> 0], 1)[Len(b)]

\* the matching characters of SequenceMatcher(None, a, b) under a binding
Matches(binding, a, b) ==
    IF binding = "difflib" THEN MatchingBlocks(a, b, 1, Len(a), 1, Len(b))
    ELSE Lcs(a, b)

\* int(round(100 * (num / den))) in floats, for den up to 400: Python 3 rounds
\* a tie to the even integer, and the two products that miss their tie are
\* 100 * (23 / 40) = 57.49999999999999 and 100 * (109 / 200) = 54.50000000000001
RoundPercent(num, den) ==
    LET q == (100 * num) \div den
        r == (100 * num) % den
    IN  IF 40 * num = 23 * den THEN 57
        ELSE IF 200 * num = 109 * den THEN 55
        ELSE IF 2 * r < den THEN q
        ELSE IF 2 * r > den THEN q + 1
        ELSE IF q % 2 = 0 THEN q ELSE q + 1

\* fuzz.ratio(a, b) under a binding of SequenceMatcher
Ratio(binding, a, b) ==
    IF a = b THEN 100
    ELSE IF Len(a) = 0 \/ Len(b) = 0 THEN 0
    ELSE RoundPercent(2 * Matches(binding, a, b), Len(a) + Len(b))

FuzzRatio(a, b) == Ratio(matcher, a, b)

-----------------------------------------------------------------------------
(* Foreign-key inference from naming conventions *)

\* settings.fk_inference_similarity_threshold = 0.7, in thousandths
fk_inference_similarity_threshold == 700

fk_patterns == << "{table}_ID", "ID_{table}", "{table}_KEY", "{table}_FK",
                  "{table}ID", "ID{table}" >>

Placeholder == "{TABLE}"

\* _matches_fk_pattern
MatchesFkPattern(column_name, pattern) ==
    LET column_upper  == Upper(column_name)
        pattern_upper == Upper(pattern)
        parts         == Split(pattern_upper, Placeholder)
    IN  IF ~Contains(pattern, "{table}") THEN FALSE
        ELSE IF StartsWith(pattern_upper, Placeholder)
        THEN LET suffix == RemoveAll(pattern_upper, Placeholder)
             IN  EndsWith(column_upper, suffix) /\ Len(column_upper) > Len(suffix)
        ELSE IF EndsWith(pattern_upper, Placeholder)
        THEN LET prefix == RemoveAll(pattern_upper, Placeholder)
             IN  StartsWith(column_upper, prefix) /\ Len(column_upper) > Len(prefix)
        ELSE IF Len(parts) = 2
        THEN /\ StartsWith(column_upper, parts[1])
             /\ EndsWith(column_upper, parts[2])
             /\ Len(column_upper) > Len(parts[1]) + Len(parts[2])
        ELSE FALSE

\* _extract_table_references: the references, empty strings removed
ExtractTableReferences(column_name, pattern) ==
    LET column_upper  == Upper(column_name)
        pattern_upper == Upper(pattern)
        parts         == Split(pattern_upper, Placeholder)
        references ==
            IF StartsWith(pattern_upper, Placeholder)
            THEN LET suffix == RemoveAll(pattern_upper, Placeholder)
                 IN  IF EndsWith(column_upper, suffix)
                     THEN << IF Len(suffix) > 0
                             THEN SubSeq(column_name, 1, Len(column_name) - Len(suffix))
                             ELSE column_name >>
                     ELSE << >>
            ELSE IF EndsWith(pattern_upper, Placeholder)
            THEN LET prefix == RemoveAll(pattern_upper, Placeholder)
                 IN  IF StartsWith(column_upper, prefix)
                     THEN << IF Len(prefix) > 0
                             THEN SubSeq(column_name, Len(prefix) + 1, Len(column_name))
                             ELSE column_name >>
                     ELSE << >>
            ELSE IF Len(parts) = 2
                    /\ StartsWith(column_upper, parts[1])
                    /\ EndsWith(column_upper, parts[2])
            THEN << SubSeq(column_name, Len(parts[1]) + 1,
                           IF Len(parts[2]) > 0 THEN Len(column_name) - Len(parts[2])
                                                ELSE Len(column_name)) >>
            ELSE << >>
    IN  SelectSeq(references, LAMBDA ref : Len(ref) > 0)

\* score = fuzz.ratio(...) / 100.0, in thousandths
Score(ratio) == 10 * ratio

\* the substring branch of _find_matching_table: score * 1.2 when the reference
\* (3 characters or more) is inside the table name and longer than 30% of it
SubstringBoostApplies(reference, table_name) ==
    /\ Contains(Upper(table_name), Upper(reference))
    /\ Len(reference) >= 3
    /\ 10 * Len(reference) > 3 * Len(table_name)

\* adjusted_score = score * 1.2, in thousandths. The product is a binary
\* floating point one: it compares with the thousandths as 12 * ratio does
\* for every ratio but 75, where 0.75 * 1.2 is 0.8999999999999999, under 0.9
AdjustedScore(ratio) == IF ratio = 75 THEN 899 ELSE 12 * ratio

\* no table: best_match = None, which `if matched_table` treats like ""
NoTable == ""

\* the loop iteration with >= in place of >: the last listed wins ties
MatchStepLastWins(best, reference, table_name, min_similarity) ==
    LET ratio == FuzzRatio(Upper(reference), Upper(table_name))
        score == Score(ratio)
        b1    == IF score >= best.score /\ score >= min_similarity
                 THEN [match |-> table_name, score |-> score] ELSE best
        adj   == AdjustedScore(ratio)
    IN  IF SubstringBoostApplies(reference, table_name)
           /\ adj >= b1.score /\ adj >= min_similarity
        THEN [match |-> table_name, score |-> adj]
        ELSE b1

\* the loop iteration without the minimum: the best score wins whatever it is
MatchStepNoMinimum(best, reference, table_name, min_similarity) ==
    LET ratio == FuzzRatio(Upper(reference), Upper(table_name))
        score == Score(ratio)
        b1    == IF score > best.score
                 THEN [match |-> table_name, score |-> score] ELSE best
        adj   == AdjustedScore(ratio)
    IN  IF SubstringBoostApplies(reference, table_name) /\ adj > b1.score
        THEN [match |-> table_name, score |-> adj]
        ELSE b1

\* one iteration of the loop of _find_matching_table on (best_match, best_score)
MatchStep(best, reference, table_name, min_similarity) ==
    LET ratio == FuzzRatio(Upper(reference), Upper(table_name))
        score == Score(ratio)
        b1    == IF score > best.score /\ score >= min_similarity
                 THEN [match |-> table_name, score |-> score] ELSE best
        adj   == AdjustedScore(ratio)
    IN  IF SubstringBoostApplies(reference, table_name)
           /\ adj > b1.score /\ adj >= min_similarity
        THEN [match |-> table_name, score |-> adj]
        ELSE b1

RECURSIVE MatchLoop(_, _, _, _, _)
MatchLoop(reference, table_names, min_similarity, k, best) ==
    IF k > Len(table_names) THEN best.match
    ELSE IF Upper(reference) = Upper(table_names[k]) THEN table_names[k]
    ELSE MatchLoop(reference, table_names, min_similarity, k + 1,
                   MatchStep(best, reference, table_names[k], min_similarity))

\* _find_matching_table
FindMatchingTable(reference, table_names, min_similarity) ==
    MatchLoop(reference, table_names, min_similarity, 1, [match |-> NoTable, score |-> 0])

\* the confidence without the substring bonus
CalculateConfidencePlain(reference, matched_table) ==
    IF Upper(reference) = Upper(matched_table) THEN 100
    ELSE FuzzRatio(Upper(reference), Upper(matched_table))

\* the confidence with the substring bonus and without min(..., 1.0)
CalculateConfidenceUncapped(reference, matched_table) ==
    LET ratio == FuzzRatio(Upper(reference), Upper(matched_table))
    IN  IF Upper(reference) = Upper(matched_table) THEN 100
        ELSE IF Contains(Upper(matched_table), Upper(reference))
        THEN (11 * ratio + 5) \div 10
        ELSE ratio

\* _calculate_confidence, in hundredths: round(confidence, 2)
CalculateConfidence(reference, matched_table) ==
    LET ratio == FuzzRatio(Upper(reference), Upper(matched_table))
    IN  IF Upper(reference) = Upper(matched_table) THEN 100
        ELSE IF Contains(Upper(matched_table), Upper(reference))
        THEN Min((11 * ratio + 5) \div 10, 100)
        ELSE ratio

-----------------------------------------------------------------------------
(* introspect_oracle_schema: catalog rows -> nodes and relationships *)

DatabaseId(database_name) == "database_" \o database_name
TableId(database_name, table_name) == database_name \o "_table_" \o table_name
ColumnId(database_name, table_name, column_name) ==
    database_name \o "_column_" \o table_name \o "_" \o column_name

\* introspection_timestamp = None until the graph is stored
NoTimestamp == 0

DatabaseNode(database_name, schema_name) ==
    [id |-> DatabaseId(database_name), type |-> "database", name |-> database_name,
     properties |-> [schema_filter |-> IF schema_name = "" THEN "all_schemas" ELSE schema_name,
                     introspection_timestamp |-> NoTimestamp]]

TableNode(database_name, table) ==
    [id |-> TableId(database_name, table.name), type |-> "table", name |-> table.name,
     properties |-> [database |-> database_name, schema |-> table.owner]]

ColumnNode(database_name, table_name, column_name) ==
    [id |-> ColumnId(database_name, table_name, column_name), type |-> "column",
     name |-> column_name,
     properties |-> [database |-> database_name, table |-> table_name,
                     is_primary_key |-> FALSE, is_foreign_key |-> FALSE]]

\* properties = {} of a HAS_TABLE or HAS_COLUMN relationship
NoProperties == << >>

Relationship(source_id, target_id, type, properties) ==
    [source_id |-> source_id, target_id |-> target_id, type |-> type,
     properties |-> properties]

Map(f(_), seq) == [k \in 1..Len(seq) |-> f(seq[k])]

\* the database node, then one node and one HAS_TABLE relationship per table row
TableNodes(database_name, c) ==
    << DatabaseNode(database_name, c.schema) >>
        \o Map(LAMBDA t : TableNode(database_name, t), c.tables)

TableRelationships(database_name, c) ==
    Map(LAMBDA t : Relationship(DatabaseId(database_name),
                                TableId(database_name, t.name), "HAS_TABLE", NoProperties),
        c.tables)

\* _get_columns: the column rows of ALL_TAB_COLUMNS for table_name.upper()
GetColumns(c, table_name) ==
    LET rows == SelectSeq(c.tables, LAMBDA t : t.name = Upper(table_name))
    IN  IF Len(rows) = 0 THEN << >> ELSE rows[1].columns

ColumnNodes(database_name, c, table_name) ==
    Map(LAMBDA col : ColumnNode(database_name, table_name, col), GetColumns(c, table_name))

ColumnRelationships(database_name, c, table_name) ==
    Map(LAMBDA col : Relationship(TableId(database_name, table_name),
                                  ColumnId(database_name, table_name, col),
                                  "HAS_COLUMN", NoProperties),
        GetColumns(c, table_name))

\* for node in nodes: if node.id == id: node.properties[key] = True; break
RECURSIVE FirstIndex(_, _, _)
FirstIndex(nodes, id, k) ==
    IF k > Len(nodes) THEN 0
    ELSE IF nodes[k].id = id THEN k
    ELSE FirstIndex(nodes, id, k + 1)

SetFlag(properties, key) ==
    IF key \in DOMAIN properties THEN [properties EXCEPT ![key] = TRUE]
    ELSE [f \in DOMAIN properties \cup {key} |-> IF f = key THEN TRUE ELSE properties[f]]

MarkFirst(nodes, id, key) ==
    LET k == FirstIndex(nodes, id, 1)
    IN  IF k = 0 THEN nodes
        ELSE [nodes EXCEPT ![k].properties = SetFlag(nodes[k].properties, key)]

RECURSIVE MarkPrimaryKeys(_, _, _, _)
MarkPrimaryKeys(nodes, database_name, pks, k) ==
    IF k > Len(pks) THEN nodes
    ELSE MarkPrimaryKeys(
            MarkFirst(nodes, ColumnId(database_name, pks[k].table, pks[k].column),
                      "is_primary_key"),
            database_name, pks, k + 1)

RECURSIVE MarkForeignKeys(_, _, _, _)
MarkForeignKeys(nodes, database_name, fks, k) ==
    IF k > Len(fks) THEN nodes
    ELSE MarkForeignKeys(
            MarkFirst(nodes, ColumnId(database_name, fks[k].table, fks[k].column),
                      "is_foreign_key"),
            database_name, fks, k + 1)

DeclaredForeignKey(database_name, fk) ==
    Relationship(ColumnId(database_name, fk.table, fk.column),
                 ColumnId(database_name, fk.r_table, fk.r_column),
                 "HAS_FOREIGN_KEY",
                 [constraint_name |-> fk.constraint_name,
                  r_constraint_name |-> fk.r_constraint_name,
                  inferred |-> FALSE])

DeclaredForeignKeys(database_name, fks) ==
    Map(LAMBDA fk : DeclaredForeignKey(database_name, fk), fks)

-----------------------------------------------------------------------------
(* _infer_foreign_keys_from_naming *)

\* table_names: the names of the table nodes, in node order
TableNamesOf(nodes) ==
    Map(LAMBDA n : n.name, SelectSeq(nodes, LAMBDA n : n.type = "table"))

\* the key a node inserts into column_info
InfoKey(n) == IF n.type = "table" THEN n.name ELSE n.properties.table

RECURSIVE Distinct(_, _, _)
Distinct(seq, k, acc) ==
    IF k > Len(seq) THEN acc
    ELSE Distinct(seq, k + 1,
                  IF \E j \in 1..Len(acc) : acc[j] = seq[k] THEN acc ELSE Append(acc, seq[k]))

\* the keys of column_info, in insertion order
ColumnInfoKeys(nodes) ==
    Distinct(Map(InfoKey, SelectSeq(nodes, LAMBDA n : n.type \in {"table", "column"})),
             1, << >>)

ColumnInfoKeySet(nodes) ==
    { InfoKey(nodes[k]) : k \in { j \in 1..Len(nodes) : nodes[j].type \in {"table", "column"} } }

\* column_info[table_name]: a table node resets the list, a column node appends
RECURSIVE ColumnsFrom(_, _, _, _)
ColumnsFrom(nodes, table_name, k, acc) ==
    IF k > Len(nodes) THEN acc
    ELSE ColumnsFrom(nodes, table_name, k + 1,
            IF nodes[k].type = "table" /\ nodes[k].name = table_name THEN << >>
            ELSE IF nodes[k].type = "column" /\ nodes[k].properties.table = table_name
            THEN Append(acc, nodes[k])
            ELSE acc)

ColumnInfo(nodes, table_name) == ColumnsFrom(nodes, table_name, 1, << >>)

\* no node: _find_primary_key_column returned None
NoNode == [id |-> "", type |-> "none", name |-> "", properties |-> NoProperties]

FirstWhere(seq, P(_)) ==
    LET hits == SelectSeq(seq, P) IN IF Len(hits) = 0 THEN NoNode ELSE hits[1]

PkPatterns(table_name) ==
    << "ID", table_name \o "_ID", "ID_" \o table_name, table_name \o "ID" >>

RECURSIVE FirstByPattern(_, _, _)
FirstByPattern(columns, patterns, k) ==
    IF k > Len(patterns) THEN NoNode
    ELSE LET hit == FirstWhere(columns, LAMBDA col : Upper(col.name) = Upper(patterns[k]))
         IN  IF hit # NoNode THEN hit ELSE FirstByPattern(columns, patterns, k + 1)

\* _find_primary_key_column without the loop on the flagged columns
FindPrimaryKeyColumnByName(table_name, nodes) ==
    LET columns == ColumnInfo(nodes, table_name)
        named   == FirstByPattern(columns, PkPatterns(table_name), 1)
    IN  IF table_name \notin ColumnInfoKeySet(nodes)
        THEN NoNode
        ELSE IF named # NoNode THEN named
        ELSE IF Len(columns) > 0 THEN columns[1]
        ELSE NoNode

\* _find_primary_key_column
FindPrimaryKeyColumn(table_name, nodes) ==
    LET columns == ColumnInfo(nodes, table_name)
        flagged == FirstWhere(columns, LAMBDA col : col.properties.is_primary_key)
        named   == FirstByPattern(columns, PkPatterns(table_name), 1)
    IN  IF table_name \notin ColumnInfoKeySet(nodes)
        THEN NoNode
        ELSE IF flagged # NoNode THEN flagged
        ELSE IF named # NoNode THEN named
        ELSE IF Len(columns) > 0 THEN columns[1]
        ELSE NoNode

InferredForeignKey(table_name, column, pattern, ref, matched_table, pk_column) ==
    Relationship(column.id, pk_column.id, "HAS_FOREIGN_KEY",
                 [constraint_name  |-> "INFERRED_" \o table_name \o "_" \o column.name,
                  inferred         |-> TRUE,
                  inference_method |-> "naming_convention",
                  pattern_used     |-> pattern,
                  confidence       |-> CalculateConfidence(ref, matched_table)])

\* the test on the matched table: found, and not the column's own table
AcceptMatch(matched_table, table_name) ==
    matched_table # NoTable /\ matched_table # table_name

\* the test on the pair with the set of existing pairs ignored
IsNewPairAlways(pair, existing_fk_pairs) == TRUE

\* the test on the pair: not already a foreign key, declared or inferred
IsNewPair(pair, existing_fk_pairs) == pair \notin existing_fk_pairs

\* the body of the loop with at most one inferred edge kept per column
InferRefOncePerColumn(nodes, table_names, table_name, column, pattern, ref, acc) ==
    LET matched_table == FindMatchingTable(ref, table_names, fk_inference_similarity_threshold)
        pk_column     == FindPrimaryKeyColumn(matched_table, nodes)
        pair          == << column.id, pk_column.id >>
    IN  IF AcceptMatch(matched_table, table_name) /\ pk_column # NoNode
           /\ ~ \E other \in acc.existing : other[1] = column.id
        THEN [existing |-> acc.existing \cup {pair},
              inferred |-> Append(acc.inferred,
                                  InferredForeignKey(table_name, column, pattern, ref,
                                                     matched_table, pk_column))]
        ELSE acc

\* the body of `for ref in potential_table_refs`, on (existing_fk_pairs, inferred)
InferRef(nodes, table_names, table_name, column, pattern, ref, acc) ==
    LET matched_table == FindMatchingTable(ref, table_names, fk_inference_similarity_threshold)
        pk_column     == FindPrimaryKeyColumn(matched_table, nodes)
        pair          == << column.id, pk_column.id >>
    IN  IF AcceptMatch(matched_table, table_name) /\ pk_column # NoNode
           /\ IsNewPair(pair, acc.existing)
        THEN [existing |-> acc.existing \cup {pair},
              inferred |-> Append(acc.inferred,
                                  InferredForeignKey(table_name, column, pattern, ref,
                                                     matched_table, pk_column))]
        ELSE acc

\* The loops below pass (existing_fk_pairs, inferred) from one iteration to
\* the next as `next`, a value: the iteration's result, computed before the
\* following iteration starts.
RECURSIVE InferRefs(_, _, _, _, _, _, _, _)
InferRefs(nodes, table_names, table_name, column, pattern, refs, k, acc) ==
    IF k > Len(refs) THEN acc
    ELSE CHOOSE result \in
           { InferRefs(nodes, table_names, table_name, column, pattern, refs, k + 1, next) :
               next \in { InferRef(nodes, table_names, table_name, column, pattern,
                                   refs[k], acc) } } : TRUE

\* for pattern in fk_patterns
RECURSIVE InferPatterns(_, _, _, _, _, _)
InferPatterns(nodes, table_names, table_name, column, pi, acc) ==
    IF pi > Len(fk_patterns) THEN acc
    ELSE CHOOSE result \in
           { InferPatterns(nodes, table_names, table_name, column, pi + 1, next) :
               next \in { IF MatchesFkPattern(column.name, fk_patterns[pi])
                          THEN InferRefs(nodes, table_names, table_name, column,
                                         fk_patterns[pi],
                                         ExtractTableReferences(column.name, fk_patterns[pi]),
                                         1, acc)
                          ELSE acc } } : TRUE

\* for column in columns
RECURSIVE InferColumns(_, _, _, _, _, _)
InferColumns(nodes, table_names, table_name, columns, ci, acc) ==
    IF ci > Len(columns) THEN acc
    ELSE CHOOSE result \in
           { InferColumns(nodes, table_names, table_name, columns, ci + 1, next) :
               next \in { InferPatterns(nodes, table_names, table_name, columns[ci],
                                        1, acc) } } : TRUE

\* for table_name, columns in column_info.items()
RECURSIVE InferTables(_, _, _, _, _)
InferTables(nodes, keys, table_names, ti, acc) ==
    IF ti > Len(keys) THEN acc
    ELSE CHOOSE result \in
           { InferTables(nodes, keys, table_names, ti + 1, next) :
               next \in { InferColumns(nodes, table_names, keys[ti],
                                       ColumnInfo(nodes, keys[ti]), 1, acc) } } : TRUE

ExistingFkPairs(relationships) ==
    { << relationships[k].source_id, relationships[k].target_id >> :
        k \in { j \in 1..Len(relationships) : relationships[j].type = "HAS_FOREIGN_KEY" } }

InferForeignKeysFromNaming(nodes, existing_relationships) ==
    InferTables(nodes, ColumnInfoKeys(nodes), TableNamesOf(nodes), 1,
              [existing |-> ExistingFkPairs(existing_relationships),
               inferred |-> << >>]).inferred

\* mark the source column of every inferred relationship as a foreign key
RECURSIVE MarkInferred(_, _, _)
MarkInferred(nodes, inferred, k) ==
    IF k > Len(inferred) THEN nodes
    ELSE MarkInferred(MarkFirst(nodes, inferred[k].source_id, "is_foreign_key"),
                      inferred, k + 1)

-----------------------------------------------------------------------------
(* The catalogs: what the four catalog queries return.  The table rows come *)
(* ordered by OWNER, TABLE_NAME, the primary-key rows by table and          *)
(* position, the foreign-key rows by table and column.                      *)

MaxTables == 2

Table(owner, name, columns) == [owner |-> owner, name |-> name, columns |-> columns]

TablePool == <<
    Table("HR", "CUSTOMERS",             << "ID", "NAME" >>),
    Table("HR", "DEPARTMENT_ALLOCATION", << "ID", "DEPARTMENT_ID" >>),
    Table("HR", "EMPLOYEES",             << "EMP_NO", "DEPARTMENT_ID" >>),
    Table("HR", "ORDER",                 << "ITEMS_ID" >>),
    Table("HR", "ORDERS",                << "ID", "CUSTOMER_ID", "ORDER_ID" >>),
    Table("HR", "ORDER_ITEMS",           << "ID" >>),
    Table("HR", "SHIPPING_ITEMS",        << "ID", "TAX_ID" >>),
    Table("HR", "TAXES",                 << "ID", "TAX_ID", "SHIPPING_LOCATION_ID" >>),
    Table("HR", "TAX_RATES",             << "RATE", "VENDOR_ID", "UNIT_ID" >>),
    Table("HR", "UNITS",                 << >>),
    Table("HR", "VENDORS",               << "VENDORS_ID", "ID", "BADGE" >>) >>

PrimaryKey(table, column) == [table |-> table, column |-> column]

PrimaryKeyPool == <<
    PrimaryKey("CUSTOMERS", "ID"),
    PrimaryKey("EMPLOYEES", "EMP_NO"),
    PrimaryKey("ORDERS", "ID"),
    PrimaryKey("TAXES", "ID"),
    PrimaryKey("VENDORS", "BADGE") >>

ForeignKey(table, column, r_table, r_column, constraint_name, r_constraint_name) ==
    [table |-> table, column |-> column, r_table |-> r_table, r_column |-> r_column,
     constraint_name |-> constraint_name, r_constraint_name |-> r_constraint_name]

\* DEPARTMENTS is owned by another schema: it is in no table list
ForeignKeyPool == <<
    ForeignKey("EMPLOYEES", "DEPARTMENT_ID", "DEPARTMENTS", "ID", "FK_EMP_DEPT", "PK_DEPT"),
    ForeignKey("ORDERS", "CUSTOMER_ID", "CUSTOMERS", "ID", "FK_ORD_CUST", "PK_CUST"),
    ForeignKey("ORDER_ITEMS", "ID", "ORDERS", "ID", "FK_ITEM_ORD", "PK_ORD") >>

RECURSIVE Pick(_, _, _)
Pick(pool, chosen, k) ==
    IF k > Len(pool) THEN << >>
    ELSE (IF k \in chosen THEN << pool[k] >> ELSE << >>) \o Pick(pool, chosen, k + 1)

HasTable(tables, name) == \E k \in 1..Len(tables) : tables[k].name = name

Catalog(chosen, with_pks, with_fks) ==
    LET tables == Pick(TablePool, chosen, 1)
    IN  [schema |-> "HR",
         tables |-> tables,
         pks    |-> IF with_pks
                    THEN SelectSeq(PrimaryKeyPool, LAMBDA pk : HasTable(tables, pk.table))
                    ELSE << >>,
         fks    |-> IF with_fks
                    THEN SelectSeq(ForeignKeyPool, LAMBDA fk : HasTable(tables, fk.table))
                    ELSE << >>]

\* SHIPPING_ITEMS, TAXES and TAX_RATES: the two references of
\* SHIPPING_ITEMS.TAX_ID, TAX and TAX_, resolve to different tables
ManyTargets == { 7, 8, 9 }

\* the tables from TAX_RATES on come in these combinations only: TAXES with
\* TAX_RATES, TAX_RATES with UNITS, TAX_RATES with VENDORS, and ManyTargets
KeyScenarios == { { 8, 9 }, { 9, 10 }, { 9, 11 }, ManyTargets }

\* the tables up to TAXES are combined freely, MaxTables at a time
FreeTables == 1..8

Catalogs ==
    { Catalog(chosen, with_pks, with_fks) :
        chosen \in { S \in SUBSET FreeTables : Cardinality(S) <= MaxTables }
                      \cup KeyScenarios,
        with_pks \in BOOLEAN, with_fks \in BOOLEAN }

\* "hr" is a prefix of "hr2"
DbNames == { "hr", "hr2", "sales" }

-----------------------------------------------------------------------------
(* introspect_oracle_schema as a process: one step per catalog query awaited *)

\* the part after `foreign_keys = await self._get_foreign_keys(...)`: declared
\* foreign keys, then the inference pass when enabled, then the return
Finish(nodes, relationships, database_name, fks, enabled) ==
    LET marked   == MarkForeignKeys(nodes, database_name, fks, 1)
        declared == relationships \o DeclaredForeignKeys(database_name, fks)
        inferred == InferForeignKeysFromNaming(marked, declared)
    IN  IF enabled
        THEN [nodes |-> MarkInferred(marked, inferred, 1),
              relationships |-> declared \o inferred]
        ELSE [nodes |-> marked, relationships |-> declared]

IdleStore == [pc |-> "idle", db |-> "", nodes |-> << >>, relationships |-> << >>,
              i |-> 0, issued |-> << >>]

StoreIdle ==
    /\ gnodes = {} /\ grels = EmptyBag /\ clock = 1
    /\ held = [gnodes |-> {}, grels |-> EmptyBag]
    /\ multi = TRUE /\ st = IdleStore /\ hist = << >>

IdsIdle == obj = << >> /\ oid = << >>

NoRead == [op |-> "none"]

NoCall == [fn |-> "none"]

ClientsIdle == ws = << >> /\ rd = NoRead /\ hc = NoCall

InferIdle ==
    /\ ipc = "idle" /\ cat = Catalog({}, FALSE, FALSE) /\ idb = "" /\ infer = FALSE
    /\ inodes = << >> /\ irels = << >> /\ itab = 0

InitInfer ==
    /\ ipc = "tables"
    /\ cat \in Catalogs
    /\ idb \in DbNames
    /\ infer \in BOOLEAN
    /\ inodes = << >> /\ irels = << >> /\ itab = 0
    /\ matcher \in Matchers
    /\ StoreIdle /\ IdsIdle /\ ClientsIdle

\* tables = await self._get_tables(schema_name), and the table loop
ReadTables ==
    /\ ipc = "tables"
    /\ inodes' = TableNodes(idb, cat)
    /\ irels' = TableRelationships(idb, cat)
    /\ itab' = 1
    /\ ipc' = IF Len(cat.tables) = 0 THEN "pks" ELSE "columns"
    /\ UNCHANGED <<cat, idb, infer, matcher>>
    /\ UNCHANGED storeVars /\ UNCHANGED idVars /\ UNCHANGED clientVars

\* columns = await self._get_columns(table_name, schema_name), and the column loop
ReadColumns ==
    /\ ipc = "columns"
    /\ LET table_name == TableNamesOf(inodes)[itab]
       IN  /\ inodes' = inodes \o ColumnNodes(idb, cat, table_name)
           /\ irels' = irels \o ColumnRelationships(idb, cat, table_name)
    /\ itab' = itab + 1
    /\ ipc' = IF itab = Len(cat.tables) THEN "pks" ELSE "columns"
    /\ UNCHANGED <<cat, idb, infer, matcher>>
    /\ UNCHANGED storeVars /\ UNCHANGED idVars /\ UNCHANGED clientVars

\* primary_keys = await self._get_primary_keys(schema_name), and the marking loop
ReadPrimaryKeys ==
    /\ ipc = "pks"
    /\ inodes' = MarkPrimaryKeys(inodes, idb, cat.pks, 1)
    /\ ipc' = "fks"
    /\ UNCHANGED <<cat, idb, infer, irels, itab, matcher>>
    /\ UNCHANGED storeVars /\ UNCHANGED idVars /\ UNCHANGED clientVars

\* foreign_keys = await self._get_foreign_keys(schema_name), through the return
ReadForeignKeys ==
    /\ ipc = "fks"
    /\ LET g == Finish(inodes, irels, idb, cat.fks, infer)
       IN  inodes' = g.nodes /\ irels' = g.relationships
    /\ ipc' = "done"
    /\ UNCHANGED <<cat, idb, infer, itab, matcher>>
    /\ UNCHANGED storeVars /\ UNCHANGED idVars /\ UNCHANGED clientVars

NextInfer == ReadTables \/ ReadColumns \/ ReadPrimaryKeys \/ ReadForeignKeys

SpecInfer == InitInfer /\ [][NextInfer]_vars

\* the SchemaGraph introspect_oracle_schema returns
RECURSIVE AllColumnNodes(_, _, _)
AllColumnNodes(database_name, c, k) ==
    IF k > Len(c.tables) THEN << >>
    ELSE ColumnNodes(database_name, c, c.tables[k].name)
            \o AllColumnNodes(database_name, c, k + 1)

RECURSIVE AllColumnRelationships(_, _, _)
AllColumnRelationships(database_name, c, k) ==
    IF k > Len(c.tables) THEN << >>
    ELSE ColumnRelationships(database_name, c, c.tables[k].name)
            \o AllColumnRelationships(database_name, c, k + 1)

IntrospectOracleSchema(c, database_name, enabled) ==
    LET nodes0 == TableNodes(database_name, c) \o AllColumnNodes(database_name, c, 1)
        rels0  == TableRelationships(database_name, c)
                    \o AllColumnRelationships(database_name, c, 1)
        nodes1 == MarkPrimaryKeys(nodes0, database_name, c.pks, 1)
    IN  Finish(nodes1, rels0, database_name, c.fks, enabled)

-----------------------------------------------------------------------------
(* Node ids: two schema objects and the ids the introspection gives them *)

IdDbNames == { "hr", "sales" }
IdNames   == { "ID", "ITEMS_ID", "ORDER", "ORDER_ITEMS" }

Objects ==
    [type : {"database"}, db : IdDbNames]
        \cup [type : {"table"}, db : IdDbNames, table : IdNames]
        \cup [type : {"column"}, db : IdDbNames, table : IdNames, column : IdNames]

\* the id introspect_oracle_schema gives a schema object
NodeId(o) ==
    IF o.type = "database" THEN DatabaseId(o.db)
    ELSE IF o.type = "table" THEN TableId(o.db, o.table)
    ELSE ColumnId(o.db, o.table, o.column)

InitIds ==
    /\ obj \in Objects \X Objects
    /\ oid = << >>
    /\ matcher \in Matchers
    /\ StoreIdle /\ InferIdle /\ ClientsIdle

AssignIds ==
    /\ oid = << >>
    /\ oid' = << NodeId(obj[1]), NodeId(obj[2]) >>
    /\ UNCHANGED <<obj, matcher>>
    /\ UNCHANGED storeVars /\ UNCHANGED inferVars /\ UNCHANGED clientVars

NextIds == AssignIds

SpecIds == InitIds /\ [][NextIds]_vars

-----------------------------------------------------------------------------
(* The graph store: what the Cypher statements of store_schema_in_neo4j do. *)
(* A node of the store carries its properties and nid, the identity the     *)
(* store gives it; a relationship joins two nodes.                          *)

\* null in a row of the store
Null == ""

\* `x in xs` for a list
InList(x, xs) == \E k \in 1..Len(xs) : xs[k] = x

\* n.<key> in a Cypher expression: null when the node has no such property
Property(n, key) == IF key \in (DOMAIN n) \ {"nid"} THEN n[key] ELSE Null

\* n.<key> = value in a WHERE clause: false when the node has no such property
PropertyEquals(n, key, value) == key \in (DOMAIN n) \ {"nid"} /\ n[key] = value

\* WHERE n.database = $database_name OR n.id STARTS WITH $db_prefix
DeleteMatches(n, database_name, db_prefix) ==
    \/ PropertyEquals(n, "database", database_name)
    \/ StartsWith(n.id, db_prefix)

Restrict(bag, keep(_)) == [r \in { x \in DOMAIN bag : keep(x) } |-> bag[r]]

\* DETACH DELETE of the nodes in victims
NodesAfterDelete(nodes, victims) == nodes \ victims
RelsAfterDelete(rels, victims) ==
    LET gone == { n.nid : n \in victims }
    IN  Restrict(rels, LAMBDA r : r.src \notin gone /\ r.tgt \notin gone)

\* the nodes the delete statement of store_schema_in_neo4j removes
Victims(nodes, multiple, database_name) ==
    IF ~multiple THEN nodes
    ELSE { n \in nodes : DeleteMatches(n, database_name, "database_" \o database_name) }

\* CREATE (n:SchemaNode {id: $id, type: $type, name: $name, properties: $properties}):
\* $properties is the dict node.properties, and the store takes only primitive
\* values and arrays of them as property values.  The statement raises for
\* every node and creates nothing; neo4j.query logs and raises again.
CreateNode(nodes, node) == [raised |-> TRUE, gnodes |-> nodes]

\* the pairs of nodes the two MATCH clauses of a relationship statement find
Endpoints(nodes, rel) ==
    { q \in nodes \X nodes : q[1].id = rel.source_id /\ q[2].id = rel.target_id }

\* a relationship statement whose CREATE the store accepts: one relationship
\* more for every pair of nodes the two MATCH clauses find
CreateRelationshipAccepted(nodes, rels, rel) ==
    [raised |-> FALSE,
     grels |-> rels (+) SetToBag({ [src |-> p[1].nid, tgt |-> p[2].nid, type |-> rel.type] :
                                     p \in Endpoints(nodes, rel) })]

\* MATCH (source {id: $source_id}) MATCH (target {id: $target_id})
\* CREATE (source)-[r:RELATIONSHIP {type: $type, properties: $properties}]->(target):
\* when either MATCH finds nothing there is no row, nothing is created and
\* nothing is raised; with a row the CREATE raises as it does for a node,
\* $properties being the dict rel.properties
CreateRelationship(nodes, rels, rel) ==
    [raised |-> Endpoints(nodes, rel) # {}, grels |-> rels]

\* node.properties["introspection_timestamp"] = utcnow() on every database node
SetTimestamp(nodes, now) ==
    [k \in 1..Len(nodes) |->
        IF nodes[k].type = "database"
        THEN [nodes[k] EXCEPT !.properties.introspection_timestamp = now]
        ELSE nodes[k]]

-----------------------------------------------------------------------------
(* What the graph store holds when the program starts.  The store is a     *)
(* server of its own: it may be empty, or hold schema graphs another       *)
(* writer put there, their nodes carrying id, type and name and their      *)
(* relationships type.                                                     *)

\* CUSTOMERS(ID, NAME, CITY) and ORDERS(ID, CUSTOMER_ID, ORDER_DATE), nothing declared
ScenarioCatalog ==
    [schema |-> "HR",
     tables |-> << Table("HR", "CUSTOMERS", << "ID", "NAME", "CITY" >>),
                   Table("HR", "ORDERS", << "ID", "CUSTOMER_ID", "ORDER_DATE" >>) >>,
     pks    |-> << >>,
     fks    |-> << >>]

EmptyStore == [gnodes |-> {}, grels |-> EmptyBag]

LoadedNode(node, nid) ==
    [nid |-> nid, id |-> node.id, type |-> node.type, name |-> node.name]

\* the nodes of a graph as the store holds them, after `base` others
LoadNodes(nodes, base) == { LoadedNode(nodes[k], base + k) : k \in 1..Len(nodes) }

\* the relationships of a graph between the stored nodes their ids name
RECURSIVE LoadRelationships(_, _, _)
LoadRelationships(stored, relationships, k) ==
    IF k > Len(relationships) THEN EmptyBag
    ELSE SetToBag({ [src |-> p[1].nid, tgt |-> p[2].nid, type |-> relationships[k].type] :
                      p \in Endpoints(stored, relationships[k]) })
            (+) LoadRelationships(stored, relationships, k + 1)

\* the highest identity among the nodes, 0 without nodes
LastNid(nodes) ==
    IF nodes = {} THEN 0
    ELSE CHOOSE last \in { n.nid : n \in nodes } : \A n \in nodes : n.nid <= last

\* the store contents with the graph g added
LoadGraph(contents, g) ==
    CHOOSE loaded \in
      { [gnodes |-> stored,
         grels |-> contents.grels (+) LoadRelationships(stored, g.relationships, 1)] :
          stored \in { contents.gnodes \cup LoadNodes(g.nodes, LastNid(contents.gnodes)) } } : TRUE

\* the store contents with the declared graph of catalog c added under database_name
Load(contents, c, database_name) ==
    CHOOSE loaded \in
      { LoadGraph(before, g) :
          before \in { contents },
          g \in { IntrospectOracleSchema(c, database_name, FALSE) } } : TRUE

\* the contents a run may start on: nothing; CUSTOMERS under hr; CUSTOMERS and
\* ORDERS with their keys under hr2 beside CUSTOMERS under hr; the scenario
\* catalog under sales
Preloads ==
    { EmptyStore,
      Load(EmptyStore, Catalog({1}, FALSE, FALSE), "hr"),
      Load(Load(EmptyStore, Catalog({1, 5}, TRUE, TRUE), "hr2"),
           Catalog({1}, FALSE, FALSE), "hr"),
      Load(EmptyStore, ScenarioCatalog, "sales") }

-----------------------------------------------------------------------------
(* store_schema_in_neo4j as a process: one step per statement awaited *)

MaxStores == 2

\* the catalogs whose graphs are stored
StoreCatalogs ==
    { Catalog({1}, FALSE, FALSE), Catalog({1, 5}, FALSE, FALSE), Catalog({3}, FALSE, TRUE) }

\* a SchemaGraph with the relationships of g and an empty node list
WithoutNodes(g) == [nodes |-> << >>, relationships |-> g.relationships]

\* the graphs store_schema_in_neo4j is called with for database_name: the
\* graphs introspection returns, and the relationships of CUSTOMERS alone
StoreGraphs(database_name) ==
    { IntrospectOracleSchema(c, database_name, TRUE) : c \in StoreCatalogs }
        \cup { WithoutNodes(IntrospectOracleSchema(Catalog({1}, FALSE, FALSE),
                                                   database_name, TRUE)) }

\* the call with its two loops in the other order
AfterDeleteRelationshipsFirst(nodes, relationships) ==
    IF Len(relationships) > 0 THEN "rels"
    ELSE IF Len(nodes) > 0 THEN "nodes"
    ELSE "idle"

\* where the call goes after its delete statement
AfterDelete(nodes, relationships) ==
    IF Len(nodes) > 0 THEN "nodes"
    ELSE IF Len(relationships) > 0 THEN "rels"
    ELSE "idle"

\* where the call goes after the statement for relationship i
AfterRelationship(i, relationships) ==
    IF i < Len(relationships) THEN "rels" ELSE "idle"

\* a call that has ended, returned ("ok") or raised, with the contents it left
Ended(call, nodes, rels, status) ==
    [db |-> call.db, nodes |-> call.nodes, relationships |-> call.relationships,
     gnodes |-> nodes, grels |-> rels, status |-> status]

InitStore ==
    /\ matcher \in Matchers
    /\ held \in Preloads
    /\ gnodes = held.gnodes /\ grels = held.grels /\ clock = 1
    /\ multi \in BOOLEAN
    /\ st = IdleStore /\ hist = << >>
    /\ InferIdle /\ IdsIdle /\ ClientsIdle

\* store_schema_in_neo4j(schema, database_name) is entered
StoreEnter(nodes, relationships, database_name) ==
    /\ st.pc = "idle"
    /\ st' = [pc |-> "delete", db |-> database_name, nodes |-> nodes,
              relationships |-> relationships, i |-> 0, issued |-> << >>]
    /\ held' = [gnodes |-> gnodes, grels |-> grels]
    /\ UNCHANGED <<gnodes, grels, clock, multi, hist>>

\* a caller passes a graph to store_schema_in_neo4j
StoreCall(database_name) ==
    /\ st.pc = "idle"
    /\ Len(hist) < MaxStores
    /\ \E g \in StoreGraphs(database_name) : StoreEnter(g.nodes, g.relationships, database_name)
    /\ UNCHANGED matcher
    /\ UNCHANGED inferVars /\ UNCHANGED idVars /\ UNCHANGED clientVars

\* the delete statement, then the timestamp on the database node
StoreDelete ==
    /\ st.pc = "delete"
    /\ LET victims == Victims(gnodes, multi, st.db)
           next == AfterDelete(st.nodes, st.relationships)
       IN  /\ gnodes' = NodesAfterDelete(gnodes, victims)
           /\ grels' = RelsAfterDelete(grels, victims)
           /\ st' = [st EXCEPT !.pc = next,
                               !.nodes = SetTimestamp(st.nodes, clock),
                               !.i = 1,
                               !.issued = Append(@, "DELETE")]
           /\ hist' = IF next = "idle"
                      THEN Append(hist, Ended(st, gnodes', grels', "ok")) ELSE hist
    /\ clock' = clock + 1
    /\ UNCHANGED <<held, multi, matcher>>
    /\ UNCHANGED inferVars /\ UNCHANGED idVars /\ UNCHANGED clientVars

\* the CREATE statement of the first node: it raises, the exception leaves
\* store_schema_in_neo4j, and what the delete removed stays removed
StoreCreateNode ==
    /\ st.pc = "nodes"
    /\ LET result == CreateNode(gnodes, st.nodes[st.i])
       IN  /\ result.raised
           /\ gnodes' = result.gnodes
    /\ st' = [st EXCEPT !.pc = "idle", !.issued = Append(@, "CREATE_NODE")]
    /\ hist' = Append(hist, Ended(st, gnodes', grels, "error"))
    /\ UNCHANGED <<grels, held, clock, multi, matcher>>
    /\ UNCHANGED inferVars /\ UNCHANGED idVars /\ UNCHANGED clientVars

\* the MATCH ... CREATE statement of relationship i, reached by a graph
\* without nodes: the call ends when the statement raises or was the last
StoreCreateRelationship ==
    /\ st.pc = "rels"
    /\ LET result == CreateRelationship(gnodes, grels, st.relationships[st.i])
           next == IF result.raised THEN "idle"
                   ELSE AfterRelationship(st.i, st.relationships)
       IN  /\ grels' = result.grels
           /\ st' = [st EXCEPT !.pc = next,
                               !.i = st.i + 1,
                               !.issued = Append(@, "CREATE_REL")]
           /\ hist' = IF next = "idle"
                      THEN Append(hist, Ended(st, gnodes, grels',
                                              IF result.raised THEN "error" ELSE "ok"))
                      ELSE hist
    /\ UNCHANGED <<gnodes, held, clock, multi, matcher>>
    /\ UNCHANGED inferVars /\ UNCHANGED idVars /\ UNCHANGED clientVars

NextStore ==
    \/ \E database_name \in DbNames : StoreCall(database_name)
    \/ StoreDelete
    \/ StoreCreateNode
    \/ StoreCreateRelationship

SpecStore == InitStore /\ [][NextStore]_vars

-----------------------------------------------------------------------------
(* A store call that fails for a reason of its own: the connection to the  *)
(* store is lost at the statement the call is awaiting.  The statement has *)
(* been handed to the driver; session.run, result.data() or the close of   *)
(* the session raises, neo4j.query logs and raises again, and the call     *)
(* ends with what the store had applied so far.                            *)

\* the statement a call at pc is awaiting
Statement(pc) ==
    IF pc = "delete" THEN "DELETE"
    ELSE IF pc = "nodes" THEN "CREATE_NODE"
    ELSE "CREATE_REL"

\* the connection is lost at the awaited statement.  The delete has been
\* applied by the store or not; a CREATE statement leaves the store as it is
\* either way (it creates nothing, see CreateNode and CreateRelationship).
StoreFail ==
    /\ st.pc \in { "delete", "nodes", "rels" }
    /\ \E applied \in BOOLEAN :
         LET victims == IF st.pc = "delete" /\ applied
                        THEN Victims(gnodes, multi, st.db) ELSE {}
         IN  /\ gnodes' = NodesAfterDelete(gnodes, victims)
             /\ grels' = RelsAfterDelete(grels, victims)
             /\ hist' = Append(hist, Ended(st, gnodes', grels', "error"))
    /\ st' = [st EXCEPT !.pc = "idle", !.issued = Append(@, Statement(st.pc))]
    /\ UNCHANGED <<held, clock, multi, matcher>>
    /\ UNCHANGED inferVars /\ UNCHANGED idVars /\ UNCHANGED clientVars

NextRepair ==
    \/ \E database_name \in DbNames : StoreCall(database_name)
    \/ StoreDelete
    \/ StoreCreateNode
    \/ StoreCreateRelationship
    \/ StoreFail

SpecRepair == InitStore /\ [][NextRepair]_vars

-----------------------------------------------------------------------------
(* What a store contents or a graph holds, as bags of node and relationship *)
(* values: store identities dropped, introspection_timestamp ignored.       *)

WithoutTimestamp(properties) ==
    IF "introspection_timestamp" \in DOMAIN properties
    THEN [properties EXCEPT !.introspection_timestamp = NoTimestamp]
    ELSE properties

\* a node of a graph, whatever the time it was stored at
NodeView(n) ==
    [id |-> n.id, type |-> n.type, name |-> n.name,
     properties |-> WithoutTimestamp(n.properties)]

\* what a node of the store and a node of a graph are compared by
NodeKey(n) == [id |-> n.id, type |-> n.type, name |-> n.name]

RECURSIVE SumOver(_, _)
SumOver(S, f) ==
    IF S = {} THEN 0
    ELSE LET x == CHOOSE y \in S : TRUE IN f[x] + SumOver(S \ {x}, f)

\* the bag of View(x) for x in the bag `bag`
BagOfViews(bag, View(_)) ==
    [v \in { View(x) : x \in DOMAIN bag } |->
        SumOver({ x \in DOMAIN bag : View(x) = v }, bag)]

SeqToBag(seq) ==
    [v \in { seq[k] : k \in 1..Len(seq) } |->
        Cardinality({ k \in 1..Len(seq) : seq[k] = v })]

NodeBag(nodes) == BagOfViews(SetToBag(nodes), NodeKey)
GraphNodeBag(nodes) == BagOfViews(SeqToBag(nodes), NodeKey)

\* the graph of a call, whatever the time of the call
SameGraph(a, b) ==
    /\ BagOfViews(SeqToBag(a.nodes), NodeView) = BagOfViews(SeqToBag(b.nodes), NodeView)
    /\ a.relationships = b.relationships

StoredId(nodes, nid) == (CHOOSE n \in nodes : n.nid = nid).id

\* a relationship of the store or of a graph by its ends and its type
RelKey(source_id, target_id, type) ==
    [source_id |-> source_id, target_id |-> target_id, type |-> type]

RelBag(nodes, rels) ==
    BagOfViews(rels, LAMBDA r : RelKey(StoredId(nodes, r.src), StoredId(nodes, r.tgt), r.type))

GraphRelBag(relationships) ==
    BagOfViews(SeqToBag(relationships),
               LAMBDA r : RelKey(r.source_id, r.target_id, r.type))

\* the nodes whose id introspection builds from database_name
Owned(nodes, database_name) ==
    { n \in nodes : \/ n.id = DatabaseId(database_name)
                    \/ StartsWith(n.id, database_name \o "_table_")
                    \/ StartsWith(n.id, database_name \o "_column_") }

\* the relationships with an end in the nodes of `part`
Touching(rels, part) ==
    LET ids == { n.nid : n \in part }
    IN  Restrict(rels, LAMBDA r : r.src \in ids \/ r.tgt \in ids)

\* the last call among the first k that stored database_name (0: none)
LastStoreOf(database_name, k) ==
    LET hits == { j \in 1..k : hist[j].db = database_name }
    IN  IF hits = {} THEN 0 ELSE CHOOSE j \in hits : \A h \in hits : h <= j

-----------------------------------------------------------------------------
(* Claims about store_schema_in_neo4j (SpecStore) *)

\* C1: two calls of store in a row with the same graph and database name leave
\* the store with the same nodes and relationships (timestamps ignored) as the
\* first of them left: the second call adds no duplicate.
C1IdempotentReplace ==
    \A k \in 2..Len(hist) :
        (hist[k].db = hist[k - 1].db /\ SameGraph(hist[k], hist[k - 1]))
        => /\ NodeBag(hist[k].gnodes) = NodeBag(hist[k - 1].gnodes)
           /\ RelBag(hist[k].gnodes, hist[k].grels)
                = RelBag(hist[k - 1].gnodes, hist[k - 1].grels)

\* C1 witness: store has been called twice in a row with the same graph and
\* database name on a store that still holds nodes and relationships
C1Witness ==
    /\ Len(hist) = 2 /\ st.pc = "idle"
    /\ hist[2].db = hist[1].db /\ SameGraph(hist[2], hist[1])
    /\ Len(hist[2].relationships) > 0
    /\ hist[2].gnodes # {} /\ hist[2].grels # EmptyBag

\* C2: in multi-database mode a store for another database name leaves every
\* stored node and relationship of the database stored just before untouched,
\* and the nodes of that database are still exactly its graph's nodes.
C2NamespaceIsolation ==
    \A k \in 2..Len(hist) :
        (multi /\ hist[k].db # hist[k - 1].db)
        => LET db1    == hist[k - 1].db
               before == Owned(hist[k - 1].gnodes, db1)
               after  == Owned(hist[k].gnodes, db1)
           IN  /\ after = before
               /\ Touching(hist[k].grels, after) = Touching(hist[k - 1].grels, before)
               /\ NodeBag(after) = GraphNodeBag(hist[k - 1].nodes)

\* C3: in multi-database mode, after any sequence of store calls the stored
\* nodes of each database are exactly the nodes of the graph most recently
\* stored for it, and every stored relationship leaving them is one of that graph.
C3WholesaleReplace ==
    \A k \in 1..Len(hist) : \A database_name \in DbNames :
        (multi /\ LastStoreOf(database_name, k) # 0)
        => LET last == hist[LastStoreOf(database_name, k)]
               mine == Owned(hist[k].gnodes, database_name)
           IN  /\ NodeBag(mine) = GraphNodeBag(last.nodes)
               /\ \A r \in DOMAIN hist[k].grels :
                    (\E n \in mine : n.nid = r.src)
                    => \E j \in 1..Len(last.relationships) :
                         /\ last.relationships[j].source_id = StoredId(hist[k].gnodes, r.src)
                         /\ last.relationships[j].target_id = StoredId(hist[k].gnodes, r.tgt)
                         /\ last.relationships[j].type = r.type

\* C5: a store call never completes having dropped a relationship of its graph:
\* every relationship of the graph of a call that returned is in the store.
C5MissingEndpointIsFatal ==
    \A k \in 1..Len(hist) :
        hist[k].status = "ok"
        => \A j \in 1..Len(hist[k].relationships) :
             \E r \in DOMAIN hist[k].grels :
                /\ hist[k].relationships[j].source_id = StoredId(hist[k].gnodes, r.src)
                /\ hist[k].relationships[j].target_id = StoredId(hist[k].gnodes, r.tgt)
                /\ hist[k].relationships[j].type = r.type

\* C6: within one store call the delete statement is issued first, the node
\* statements after it, and no relationship statement before the statements
\* of all the nodes of the call have been issued.
C6WriteOrdering ==
    \A k \in 1..Len(st.issued) :
        /\ (k = 1) <=> (st.issued[k] = "DELETE")
        /\ st.issued[k] = "CREATE_REL"
            => Cardinality({ j \in 1..(k - 1) : st.issued[j] = "CREATE_NODE" })
                 = Len(st.nodes)

\* C6 witness: a call with nodes and relationships has issued its delete and
\* then a node statement, and no relationship statement
C6Witness ==
    /\ Len(st.issued) = 2
    /\ st.issued[1] = "DELETE" /\ st.issued[2] = "CREATE_NODE"
    /\ Len(st.relationships) > 0

\* the delete of an ended call had been applied: nothing it removes is stored
DeleteApplied(call) == Victims(call.gnodes, multi, call.db) = {}

\* C15: when store(G, db) has failed partway, after its delete, and a
\* following store(G, db) has run to its end, the stored subgraph of db is G:
\* no node or relationship is missing, left over or duplicated.
C15RepairByRerun ==
    \A k \in 2..Len(hist) :
        (/\ hist[k - 1].status = "error" /\ DeleteApplied(hist[k - 1])
         /\ hist[k].db = hist[k - 1].db
         /\ SameGraph(hist[k], hist[k - 1])
         /\ hist[k].status = "ok")
        => LET mine == IF multi THEN Owned(hist[k].gnodes, hist[k].db) ELSE hist[k].gnodes
           IN  /\ NodeBag(mine) = GraphNodeBag(hist[k].nodes)
               /\ RelBag(hist[k].gnodes, Touching(hist[k].grels, mine))
                    = GraphRelBag(hist[k].relationships)

\* C24: with multiple-database support disabled, after a call of store(G, db)
\* has completed the store holds exactly the nodes and the relationships of
\* G, whatever it held before, subgraphs of other database names included.
C24SingleDatabaseMode ==
    ~multi
    => \A k \in 1..Len(hist) :
         hist[k].status = "ok"
         => /\ NodeBag(hist[k].gnodes) = GraphNodeBag(hist[k].nodes)
            /\ RelBag(hist[k].gnodes, hist[k].grels) = GraphRelBag(hist[k].relationships)

-----------------------------------------------------------------------------
(* Claims about node ids (SpecIds) *)

\* C4: two distinct schema objects (another database, another node type or
\* another table/column path) never receive the same SchemaNode id.
C4NodeIdUniqueness ==
    (oid # << >> /\ obj[1] # obj[2]) => oid[1] # oid[2]

-----------------------------------------------------------------------------
(* Claims about the inference pass (SpecInfer) *)

Returned == ipc = "done"

IsInferred(r) == r.type = "HAS_FOREIGN_KEY" /\ r.properties.inferred
IsDeclared(r) == r.type = "HAS_FOREIGN_KEY" /\ ~r.properties.inferred

InferredEdges == { k \in 1..Len(irels) : IsInferred(irels[k]) }
DeclaredEdges == { k \in 1..Len(irels) : IsDeclared(irels[k]) }

ColumnsOf(nodes) == { k \in 1..Len(nodes) : nodes[k].type = "column" }

\* the references the pass extracts: one per column and pattern the column matches
RefCases ==
    { [column |-> inodes[k], pattern |-> fk_patterns[pi],
       ref |-> ExtractTableReferences(inodes[k].name, fk_patterns[pi])[1]] :
        << k, pi >> \in { x \in ColumnsOf(inodes) \X (1..Len(fk_patterns)) :
            /\ MatchesFkPattern(inodes[x[1]].name, fk_patterns[x[2]])
            /\ Len(ExtractTableReferences(inodes[x[1]].name, fk_patterns[x[2]])) > 0 } }

\* the inferred edges emitted for a reference
EdgesFor(case) ==
    { k \in InferredEdges :
        /\ irels[k].source_id = case.column.id
        /\ irels[k].properties.pattern_used = case.pattern
        /\ irels[k].properties.constraint_name
             = "INFERRED_" \o case.column.properties.table \o "_" \o case.column.name }

\* the best table-name similarity of a reference over all tables, in percent
BestSimilarity(ref) ==
    LET names == TableNamesOf(inodes)
        sims  == { FuzzRatio(Upper(ref), Upper(names[k])) : k \in 1..Len(names) }
    IN  IF sims = {} THEN 0 ELSE CHOOSE m \in sims : \A x \in sims : x <= m

\* the best score after the substring boost, in thousandths
BestBoosted(ref) ==
    LET names  == TableNamesOf(inodes)
        scores == { IF SubstringBoostApplies(ref, names[k])
                    THEN AdjustedScore(FuzzRatio(Upper(ref), Upper(names[k])))
                    ELSE Score(FuzzRatio(Upper(ref), Upper(names[k]))) : k \in 1..Len(names) }
    IN  IF scores = {} THEN 0 ELSE CHOOSE m \in scores : \A x \in scores : x <= m

HasDeclaredFrom(table, column) ==
    \E k \in 1..Len(cat.fks) : cat.fks[k].table = table /\ cat.fks[k].column = column

\* C7: with inference enabled and threshold 0.7, column CUSTOMER_ID of ORDERS,
\* with table CUSTOMERS present and no declared foreign key on the column, gets
\* exactly one inferred HAS_FOREIGN_KEY edge; it goes to the primary-key column
\* of CUSTOMERS and has confidence 1.0.
C7NearExactMatch ==
    (/\ Returned /\ infer
     /\ HasTable(cat.tables, "ORDERS") /\ HasTable(cat.tables, "CUSTOMERS")
     /\ ~HasDeclaredFrom("ORDERS", "CUSTOMER_ID"))
    => LET from == { k \in InferredEdges :
                       irels[k].source_id = ColumnId(idb, "ORDERS", "CUSTOMER_ID") }
       IN  /\ Cardinality(from) = 1
           /\ \A k \in from :
                /\ irels[k].target_id = ColumnId(idb, "CUSTOMERS", "ID")
                /\ irels[k].properties.confidence = 100

\* C7 witness: the pass returned for ORDERS and CUSTOMERS without the declared key
C7Witness ==
    /\ Returned /\ infer
    /\ HasTable(cat.tables, "ORDERS") /\ HasTable(cat.tables, "CUSTOMERS")
    /\ cat.fks = << >> /\ cat.pks # << >>
    /\ \E k \in InferredEdges :
         /\ irels[k].source_id = ColumnId(idb, "ORDERS", "CUSTOMER_ID")
         /\ irels[k].properties.pattern_used = "{table}_ID"

\* C8 as stated: with threshold 0.7, a reference whose best table-name similarity
\* over all tables is 0.65 gets no inferred edge, and one whose best similarity
\* is 0.75 gets one.
C8ThresholdBoundary ==
    (Returned /\ infer)
    => \A case \in RefCases :
         /\ BestSimilarity(case.ref) = 65 => EdgesFor(case) = {}
         /\ BestSimilarity(case.ref) = 75 => Cardinality(EdgesFor(case)) = 1

\* C8 amended: with threshold 0.7, a reference whose best similarity is 0.65
\* resolves to no table and gets no edge when no table name is boosted to 0.7
\* or more (x1.2 for a table name that contains the reference); a reference
\* whose best similarity is 0.75 resolves to a table, and then its column has
\* a foreign-key edge to the target column of that table unless the table is
\* the column's own (no edge for the reference) or has no target column.
C8ThresholdBoundaryBoosted ==
    (Returned /\ infer)
    => \A case \in RefCases :
         LET matched == FindMatchingTable(case.ref, TableNamesOf(inodes),
                                          fk_inference_similarity_threshold)
             pk      == FindPrimaryKeyColumn(matched, inodes)
         IN  /\ (BestSimilarity(case.ref) = 65
                   /\ BestBoosted(case.ref) < fk_inference_similarity_threshold)
                => matched = NoTable /\ EdgesFor(case) = {}
             /\ BestSimilarity(case.ref) = 75
                => /\ matched # NoTable
                   /\ matched = case.column.properties.table => EdgesFor(case) = {}
                   /\ (matched # case.column.properties.table /\ pk # NoNode)
                      => \E k \in InferredEdges \cup DeclaredEdges :
                           /\ irels[k].source_id = case.column.id
                           /\ irels[k].target_id = pk.id

\* C8 witness: a reference at 0.65 without boost and no edge (SHIPPING_LOCATION
\* against SHIPPING_ITEMS), and a reference at 0.75 with its edge (TAX of
\* SHIPPING_ITEMS.TAX_ID, to TAXES)
C8Witness ==
    /\ Returned /\ infer
    /\ \E case \in RefCases :
         /\ BestSimilarity(case.ref) = 65
         /\ BestBoosted(case.ref) < fk_inference_similarity_threshold
         /\ EdgesFor(case) = {}
    /\ \E case \in RefCases :
         /\ BestSimilarity(case.ref) = 75
         /\ Cardinality(EdgesFor(case)) = 1

\* C9: the pass never emits an inferred HAS_FOREIGN_KEY edge whose source
\* column and target column belong to the same table.
C9SelfReferenceExclusion ==
    Returned
    => \A k \in InferredEdges :
         ~ \E s, t \in ColumnsOf(inodes) :
               /\ inodes[s].id = irels[k].source_id
               /\ inodes[t].id = irels[k].target_id
               /\ inodes[s].properties.table = inodes[t].properties.table

\* C10: in the returned graph at most one inferred HAS_FOREIGN_KEY edge joins a
\* (source_id, target_id) pair, and none joins a pair that has a declared edge.
C10NoDuplicateFk ==
    Returned
    => /\ \A j, k \in InferredEdges :
            (irels[j].source_id = irels[k].source_id
                /\ irels[j].target_id = irels[k].target_id) => j = k
       /\ \A j \in InferredEdges : \A k \in DeclaredEdges :
            ~ (irels[j].source_id = irels[k].source_id
                /\ irels[j].target_id = irels[k].target_id)

\* C10 witness: the pass returned with the declared key of ORDERS.CUSTOMER_ID to
\* CUSTOMERS.ID, a pair the naming patterns reach as well
C10Witness ==
    /\ Returned /\ infer
    /\ HasTable(cat.tables, "CUSTOMERS")
    /\ \E k \in DeclaredEdges :
         /\ irels[k].source_id = ColumnId(idb, "ORDERS", "CUSTOMER_ID")
         /\ irels[k].target_id = ColumnId(idb, "CUSTOMERS", "ID")
    /\ \E case \in RefCases :
         /\ case.column.id = ColumnId(idb, "ORDERS", "CUSTOMER_ID")
         /\ FindMatchingTable(case.ref, TableNamesOf(inodes),
                              fk_inference_similarity_threshold) = "CUSTOMERS"

-----------------------------------------------------------------------------
(* find_relevant_schema.  Scores and thresholds are in hundredths: the float *)
(* fuzz.ratio(...) / 100.0 is held as the percentage.                        *)

UpperLetters == { Char(UpperAlphabet, i) : i \in 1..Len(UpperAlphabet) }

LowerChar(c) ==
    IF c \in UpperLetters
    THEN Char(LowerAlphabet, CHOOSE i \in 1..Len(UpperAlphabet) : Char(UpperAlphabet, i) = c)
    ELSE c

\* str.lower()
RECURSIVE Lower(_)
Lower(s) ==
    IF Len(s) = 0 THEN ""
    ELSE LowerChar(Char(s, 1)) \o Lower(SubSeq(s, 2, Len(s)))

\* str.split() on a text whose only whitespace is the space: no empty word
Words(s) == SelectSeq(Split(s, " "), LAMBDA w : Len(w) > 0)

\* the stored node with identity nid
NodeAt(nodes, nid) == CHOOSE n \in nodes : n.nid = nid

\* (a:SchemaNode {type: from_type})-[:RELATIONSHIP {type: type}]->(b:SchemaNode {type: to_type}):
\* the relationship instances the pattern matches
Matching(nodes, rels, from_type, type, to_type) ==
    { r \in DOMAIN rels :
        /\ r.type = type
        /\ NodeAt(nodes, r.src).type = from_type
        /\ NodeAt(nodes, r.tgt).type = to_type }

\* how many relationships of a set of instances go from src to tgt
CountBetween(rels, instances, src, tgt) ==
    LET hits == { r \in instances : r.src = src /\ r.tgt = tgt }
    IN  IF hits = {} THEN 0 ELSE SumOver(hits, rels)

\* the table names of the rows of the search query: tables under a database
\* node that have a column
SearchTableNames(nodes, rels) ==
    LET has_table  == Matching(nodes, rels, "database", "HAS_TABLE", "table")
        has_column == Matching(nodes, rels, "table", "HAS_COLUMN", "column")
    IN  { NodeAt(nodes, r.tgt).name :
            r \in { x \in has_table : \E y \in has_column : y.src = x.tgt } }

\* how many rows (db, table, column) of the search query have table.name =
\* table_name and the column node nid
SearchPaths(nodes, rels, table_name, nid) ==
    LET has_table  == Matching(nodes, rels, "database", "HAS_TABLE", "table")
        has_column == Matching(nodes, rels, "table", "HAS_COLUMN", "column")
        tables     == { n.nid : n \in { x \in nodes : x.type = "table" /\ x.name = table_name } }
        under      == [t \in tables |->
                         IF { r \in has_table : r.tgt = t } = {} THEN 0
                         ELSE SumOver({ r \in has_table : r.tgt = t }, rels)]
        paths      == [t \in tables |-> under[t] * CountBetween(rels, has_column, t, nid)]
    IN  IF tables = {} THEN 0 ELSE SumOver(tables, paths)

RECURSIVE Ascending(_)
Ascending(S) ==
    IF S = {} THEN << >>
    ELSE LET least == CHOOSE x \in S : \A y \in S : x <= y
         IN  << least >> \o Ascending(S \ {least})

Repeat(x, n) == [k \in 1..n |-> x]

RECURSIVE Concat(_, _)
Concat(seqs, k) == IF k > Len(seqs) THEN << >> ELSE seqs[k] \o Concat(seqs, k + 1)

\* the entries collect({name: column.name, properties: column.properties})
\* gathers for one table name, one per row, here by the identity of the column
CollectColumns(nodes, rels, table_name) ==
    LET columns == Ascending({ n.nid : n \in { x \in nodes : x.type = "column" } })
    IN  Concat([k \in 1..Len(columns) |->
                  Repeat([name |-> NodeAt(nodes, columns[k]).name,
                          properties |-> Property(NodeAt(nodes, columns[k]), "properties")],
                         SearchPaths(nodes, rels, table_name, columns[k]))], 1)

\* the lists collect may return for one table name: the query has no ORDER BY,
\* the entries come in the order the store produced the rows, which is any
ColumnOrders(nodes, rels, table_name) ==
    LET entries == CollectColumns(nodes, rels, table_name)
    IN  { [k \in 1..Len(entries) |-> entries[place[k]]] :
            place \in { f \in [1..Len(entries) -> 1..Len(entries)] :
                          \A i, j \in 1..Len(entries) : f[i] = f[j] => i = j } }

\* the orders in which the store may return the rows of a query
RowOrders(names) ==
    { order \in [1..Cardinality(names) -> names] :
        \A i, j \in 1..Cardinality(names) : order[i] = order[j] => i = j }

\* schema_data = await self.neo4j.query(cypher_query): the results the store
\* may give, one row per table name, rows and collected lists in any order
SearchQuery(nodes, rels) ==
    LET names == SearchTableNames(nodes, rels)
        lists == [name \in names |-> ColumnOrders(nodes, rels, name)]
        picks == { pick \in [names -> UNION { lists[name] : name \in names }] :
                     \A name \in names : pick[name] \in lists[name] }
    IN  { [k \in 1..Len(order) |-> [table_name |-> order[k], columns |-> pick[order[k]]]] :
            order \in RowOrders(names), pick \in picks }

\* max over the query words of fuzz.ratio(word.lower(), name.lower()), 0 without words
RECURSIVE MaxScore(_, _, _, _)
MaxScore(query_words, name, k, best) ==
    IF k > Len(query_words) THEN best
    ELSE MaxScore(query_words, name, k + 1,
                  Max(best, FuzzRatio(Lower(query_words[k]), Lower(name))))

\* the column test turned round: relevant when the score is at most the threshold
IsRelevantBelow(score, similarity_threshold) == score <= similarity_threshold

\* `if max_column_score >= similarity_threshold`
IsRelevant(score, similarity_threshold) == score >= similarity_threshold

RelevantColumns(columns, query_words, similarity_threshold) ==
    LET scored == [k \in 1..Len(columns) |->
                     [name |-> columns[k].name,
                      score |-> MaxScore(query_words, columns[k].name, 1, 0),
                      properties |-> columns[k].properties]]
    IN  SelectSeq(scored, LAMBDA col : IsRelevant(col.score, similarity_threshold))

\* `if max_table_score >= similarity_threshold or relevant_columns`
IncludeTable(max_table_score, relevant_columns, similarity_threshold) ==
    max_table_score >= similarity_threshold \/ Len(relevant_columns) > 0

\* the element goes last, whatever its score
InsertLast(sorted, x) == Append(sorted, x)

\* the element goes after every element whose table_score is not lower
RECURSIVE InsertByScore(_, _)
InsertByScore(sorted, x) ==
    IF Len(sorted) = 0 THEN << x >>
    ELSE IF sorted[1].table_score >= x.table_score
    THEN << sorted[1] >> \o InsertByScore(Tail(sorted), x)
    ELSE << x >> \o sorted

\* relevant_tables.sort(key=lambda x: x['table_score'], reverse=True): stable
RECURSIVE SortByScore(_, _, _)
SortByScore(seq, k, sorted) ==
    IF k > Len(seq) THEN sorted
    ELSE SortByScore(seq, k + 1, InsertByScore(sorted, seq[k]))

\* find_relevant_schema on the rows the query returned
FindRelevantSchema(schema_data, query_text, similarity_threshold) ==
    LET query_words == Words(Lower(query_text))
        scored == [k \in 1..Len(schema_data) |->
                     [table_name  |-> schema_data[k].table_name,
                      table_score |-> MaxScore(query_words, schema_data[k].table_name, 1, 0),
                      columns     |-> RelevantColumns(schema_data[k].columns, query_words,
                                                      similarity_threshold)]]
        relevant_tables ==
            SelectSeq(scored, LAMBDA t : IncludeTable(t.table_score, t.columns,
                                                      similarity_threshold))
    IN  SortByScore(relevant_tables, 1, << >>)

-----------------------------------------------------------------------------
(* get_schema_context.  Its query puts collect(DISTINCT {...}) of the       *)
(* foreign keys inside the collect(DISTINCT {...}) of the columns.  Cypher  *)
(* takes no aggregate inside an aggregate: the server rejects the statement *)
(* when it compiles it, whatever the store holds and whatever names are     *)
(* asked for; neo4j.query logs and raises again, and get_schema_context     *)
(* has no handler.  The loop over the rows is never reached.                *)

ContextQuery(nodes, rels, table_names) == [raised |-> TRUE, rows |-> << >>]

\* get_schema_context
GetSchemaContext(nodes, rels, table_names) ==
    LET result == ContextQuery(nodes, rels, table_names)
    IN  IF result.raised THEN [status |-> "CypherSyntaxError", out |-> << >>]
        ELSE [status |-> "ok", out |-> result.rows]

-----------------------------------------------------------------------------
(* Readers next to one writer.  The writer is a background task of          *)
(* _introspect_and_store_schema: it awaits the catalog queries of           *)
(* introspect_oracle_schema one by one, then the statements of              *)
(* store_schema_in_neo4j one by one; a search or a context call may run     *)
(* between any two of them (the store has no transaction across them).      *)

\* the introspect-and-store runs next to the readers
ReadCalls ==
    { [c |-> ScenarioCatalog, db |-> "sales"],
      [c |-> Catalog({1}, FALSE, FALSE), db |-> "hr"] }

Queries == { "customer orders", "Client orders" }
Thresholds == { 50, 60, 90 }
ContextRequests == { << "ORDERS", "CUSTOMERS" >>, << "ORDERS" >> }

\* def find_relevant_schema(self, query_text, similarity_threshold = 0.6)
FindRelevantSchemaParameters == << "query_text", "similarity_threshold" >>

\* a call is accepted when it passes no more positional arguments than parameters
Accepts(parameters, arguments) == Len(arguments) <= Len(parameters)

\* `await find_relevant_schema(query_text, similarity_threshold)`: the method
\* itself, awaited by a coroutine of the loop the store client runs on
Search(query_text, similarity_threshold) ==
    /\ rd = NoRead
    /\ \E schema_data \in SearchQuery(gnodes, grels) :
         rd' = [op |-> "search", query_text |-> query_text,
                similarity_threshold |-> similarity_threshold,
                status |-> "ok",
                out |-> FindRelevantSchema(schema_data, query_text, similarity_threshold)]
    /\ UNCHANGED <<ws, hc, matcher>>
    /\ UNCHANGED storeVars /\ UNCHANGED inferVars /\ UNCHANGED idVars

\* search_schema_endpoint: find_relevant_schema(query, similarity_threshold, database_name)
SearchEndpoint(query_text, similarity_threshold, database_name) ==
    /\ rd = NoRead
    /\ LET arguments == << query_text, similarity_threshold, database_name >>
       IN  IF Accepts(FindRelevantSchemaParameters, arguments)
           THEN \E schema_data \in SearchQuery(gnodes, grels) :
                  rd' = [op |-> "search_endpoint", query_text |-> query_text,
                         similarity_threshold |-> similarity_threshold,
                         database_name |-> database_name,
                         status |-> "ok",
                         out |-> FindRelevantSchema(schema_data, query_text,
                                                    similarity_threshold)]
           ELSE rd' = [op |-> "search_endpoint", query_text |-> query_text,
                       similarity_threshold |-> similarity_threshold,
                       database_name |-> database_name,
                       status |-> "TypeError", out |-> << >>]
    /\ UNCHANGED <<ws, hc, matcher>>
    /\ UNCHANGED storeVars /\ UNCHANGED inferVars /\ UNCHANGED idVars

\* what asyncio.get_event_loop() finds in the thread the server library calls
\* the handler on: a loop that is not running, the loop that is running the
\* server (asyncio.run(start_a2a_server()) leaves the main thread inside it),
\* or none (a worker thread).  The library is not part of the sources.
EventLoops == { "idle", "running", "none" }

\* `similarity_threshold = params.get("similarity_threshold", 0.6)`
default_similarity_threshold == 60

\* the parameters of a search_schema function call
FunctionCalls ==
    { [search_term |-> q, similarity_threshold |-> t] : q \in Queries, t \in Thresholds }
      \cup { [search_term |-> q] : q \in Queries }
      \cup { [similarity_threshold |-> t] : t \in Thresholds }

\* params.get(name, default)
Get(params, name, default) == IF name \in DOMAIN params THEN params[name] ELSE default

\* _handle_function_call, function search_schema: a synchronous handler that
\* runs find_relevant_schema with get_event_loop().run_until_complete(...).
\* A missing search term raises ValueError; get_event_loop raises RuntimeError
\* in a thread without a loop and run_until_complete raises it on a running
\* loop, find_relevant_schema is then not entered.  The handler catches every
\* exception and answers {"error": ...}.
HandleFunctionCall(params, loop) ==
    /\ rd = NoRead
    /\ LET search_term == Get(params, "search_term", "")
           similarity_threshold ==
               Get(params, "similarity_threshold", default_similarity_threshold)
       IN  IF search_term = ""
           THEN rd' = [op |-> "search_schema", query_text |-> search_term,
                       similarity_threshold |-> similarity_threshold,
                       status |-> "ValueError", out |-> << >>]
           ELSE IF loop # "idle"
           THEN rd' = [op |-> "search_schema", query_text |-> search_term,
                       similarity_threshold |-> similarity_threshold,
                       status |-> "RuntimeError", out |-> << >>]
           ELSE \E schema_data \in SearchQuery(gnodes, grels) :
                  rd' = [op |-> "search_schema", query_text |-> search_term,
                         similarity_threshold |-> similarity_threshold,
                         status |-> "ok",
                         out |-> FindRelevantSchema(schema_data, search_term,
                                                    similarity_threshold)]
    /\ UNCHANGED <<ws, hc, matcher>>
    /\ UNCHANGED storeVars /\ UNCHANGED inferVars /\ UNCHANGED idVars

\* get_schema_context(table_names)
Context(table_names) ==
    /\ rd = NoRead
    /\ LET answer == GetSchemaContext(gnodes, grels, table_names)
       IN  rd' = [op |-> "context", table_names |-> table_names,
                  status |-> answer.status, out |-> answer.out]
    /\ UNCHANGED <<ws, hc, matcher>>
    /\ UNCHANGED storeVars /\ UNCHANGED inferVars /\ UNCHANGED idVars

\* the caller has its answer
ReadReturn ==
    /\ rd # NoRead
    /\ rd' = NoRead
    /\ UNCHANGED <<ws, hc, matcher>>
    /\ UNCHANGED storeVars /\ UNCHANGED inferVars /\ UNCHANGED idVars

-----------------------------------------------------------------------------
(* _introspect_and_store_schema: one pass is introspect_oracle_schema, one  *)
(* catalog query at a time, then store_schema_in_neo4j on the graph it      *)
(* returned.  A catalog query may raise: OracleClient.query logs and        *)
(* re-raises, introspect_oracle_schema catches nothing.  A statement of the *)
(* store that raises ends the pass the same way: the task logs the error.   *)

\* the introspect-and-store requests
TaskCalls ==
    { [c |-> Catalog({1}, TRUE, FALSE), db |-> "hr"],
      [c |-> Catalog({6}, FALSE, FALSE), db |-> "hr2"],
      [c |-> Catalog({6}, TRUE, FALSE), db |-> "sales"] }

\* the store call is reached after a failed introspection as well
ProceedsAlways(pc) == pc \in { "done", "failed" }

\* `await schema_introspector.store_schema_in_neo4j(schema_graph, database_name)`
\* is reached when the awaited introspect_oracle_schema returned
Proceeds(pc) == pc = "done"

\* a background task starts: introspect_oracle_schema is entered
PassBegin(call) ==
    /\ ipc \in { "idle", "storing", "failed" }
    /\ st.pc = "idle"
    /\ Len(hist) < MaxStores
    /\ cat' = call.c
    /\ idb' = call.db
    /\ ipc' = "tables"
    /\ infer' = TRUE
    /\ inodes' = << >> /\ irels' = << >> /\ itab' = 0
    /\ held' = [gnodes |-> gnodes, grels |-> grels]
    /\ UNCHANGED <<gnodes, grels, clock, multi, st, hist, matcher>>
    /\ UNCHANGED idVars /\ UNCHANGED clientVars

\* the catalog query the pass is waiting for raises
CatalogFail ==
    /\ ipc \in { "tables", "columns", "pks", "fks" }
    /\ ipc' = "failed"
    /\ inodes' = << >> /\ irels' = << >> /\ itab' = 0
    /\ UNCHANGED <<cat, idb, infer, matcher>>
    /\ UNCHANGED storeVars /\ UNCHANGED idVars /\ UNCHANGED clientVars

\* store_schema_in_neo4j is entered with the graph of the pass
PassStore ==
    /\ Proceeds(ipc)
    /\ StoreEnter(inodes, irels, idb)
    /\ ipc' = IF ipc = "done" THEN "storing" ELSE ipc
    /\ UNCHANGED <<cat, idb, infer, inodes, irels, itab, matcher>>
    /\ UNCHANGED idVars /\ UNCHANGED clientVars

InitPass ==
    /\ matcher \in Matchers
    /\ held \in Preloads
    /\ gnodes = held.gnodes /\ grels = held.grels /\ clock = 1
    /\ multi \in BOOLEAN
    /\ st = IdleStore /\ hist = << >>
    /\ InferIdle /\ IdsIdle /\ ClientsIdle

NextPass ==
    \/ \E call \in TaskCalls : PassBegin(call)
    \/ ReadTables \/ ReadColumns \/ ReadPrimaryKeys \/ ReadForeignKeys
    \/ CatalogFail
    \/ PassStore
    \/ StoreDelete \/ StoreCreateNode

SpecPass == InitPass /\ [][NextPass]_vars

\* C22: when a catalog query (tables, columns of a table, primary keys,
\* foreign keys) fails during introspect, the pass ends with the error: no
\* SchemaGraph, not even a partial one, is returned, store is not invoked,
\* and the graph store holds what it held before the pass.
C22CatalogFailureIsFatal ==
    ipc = "failed"
    => /\ inodes = << >> /\ irels = << >>
       /\ st.pc = "idle"
       /\ gnodes = held.gnodes /\ grels = held.grels

\* C22 witness: a pass over a catalog with a table has failed while the store
\* holds a graph
C22Witness ==
    /\ ipc = "failed"
    /\ gnodes # {} /\ BagCardinality(grels) > 0
    /\ Len(cat.tables) > 0

-----------------------------------------------------------------------------
(* The readers next to the writer (SpecRead) *)

\* the writer's steps, while no read is being answered
WriterBegin == rd = NoRead /\ \E call \in ReadCalls : PassBegin(call)
WriterReadTables == rd = NoRead /\ ReadTables
WriterReadColumns == rd = NoRead /\ ReadColumns
WriterReadPrimaryKeys == rd = NoRead /\ ReadPrimaryKeys
WriterReadForeignKeys == rd = NoRead /\ ReadForeignKeys
WriterStore == rd = NoRead /\ PassStore
WriterDelete == rd = NoRead /\ StoreDelete
WriterCreateNode == rd = NoRead /\ StoreCreateNode

\* CUSTOMERS(ID, CITY) and ORDERS(ID, ORDER_DATE)
SearchCatalog ==
    [schema |-> "HR",
     tables |-> << Table("HR", "CUSTOMERS", << "ID", "CITY" >>),
                   Table("HR", "ORDERS", << "ID", "ORDER_DATE" >>) >>,
     pks    |-> << >>,
     fks    |-> << >>]

\* CUSTOMERS(ID) and ORDERS(CUSTOMER_ID) with the declared foreign key
\* ORDERS.CUSTOMER_ID -> CUSTOMERS.ID
ContextCatalog ==
    [schema |-> "HR",
     tables |-> << Table("HR", "CUSTOMERS", << "ID" >>),
                   Table("HR", "ORDERS", << "CUSTOMER_ID" >>) >>,
     pks    |-> << >>,
     fks    |-> << ForeignKeyPool[2] >>]

\* the contents the readers may find: nothing; the search catalog under sales;
\* the context catalog under sales; ORDER under hr2 beside CUSTOMERS under hr
ReadPreloads ==
    { EmptyStore,
      Load(EmptyStore, SearchCatalog, "sales"),
      Load(EmptyStore, ContextCatalog, "sales"),
      Load(Load(EmptyStore, Catalog({4}, FALSE, FALSE), "hr2"),
           Catalog({1}, FALSE, FALSE), "hr") }

InitRead ==
    /\ matcher \in Matchers
    /\ held \in ReadPreloads
    /\ gnodes = held.gnodes /\ grels = held.grels /\ clock = 1
    /\ multi = TRUE
    /\ st = IdleStore /\ hist = << >>
    /\ InferIdle /\ IdsIdle /\ ClientsIdle

NextRead ==
    \/ WriterBegin
    \/ WriterReadTables \/ WriterReadColumns \/ WriterReadPrimaryKeys \/ WriterReadForeignKeys
    \/ WriterStore \/ WriterDelete \/ WriterCreateNode
    \/ \E q \in Queries : \E t \in Thresholds : Search(q, t)
    \/ \E q \in Queries : \E t \in Thresholds : \E d \in DbNames : SearchEndpoint(q, t, d)
    \/ \E params \in FunctionCalls : \E loop \in EventLoops : HandleFunctionCall(params, loop)
    \/ \E names \in ContextRequests : Context(names)
    \/ ReadReturn

SpecRead == InitRead /\ [][NextRead]_vars

-----------------------------------------------------------------------------
(* Claims about the readers (SpecRead) *)

\* the table names of a search result
TablesIn(out) == { out[k].table_name : k \in 1..Len(out) }

\* the column entries of a table in a search result
ColumnsIn(out, table_name) ==
    UNION { { out[k].columns[j] : j \in 1..Len(out[k].columns) } :
            k \in { i \in 1..Len(out) : out[i].table_name = table_name } }

\* find_relevant_schema has returned a list, to a coroutine that awaited it or
\* to the search_schema handler
SearchReturned == rd.op \in { "search", "search_schema" } /\ rd.status = "ok"

\* what a search at another threshold may return on the store as it is
SearchResults(query_text, similarity_threshold) ==
    { FindRelevantSchema(schema_data, query_text, similarity_threshold) :
        schema_data \in SearchQuery(gnodes, grels) }

\* C11: for a fixed stored graph and query text and thresholds t1 <= t2, the
\* tables a search returns at t2 are among those it returns at t1 (the count
\* never grows), and each returned table's relevant columns at t2 are among
\* its relevant columns at t1.
C11SearchMonotonicity ==
    SearchReturned
    => \A t2 \in { t \in Thresholds : rd.similarity_threshold <= t } :
         \A higher \in SearchResults(rd.query_text, t2) :
            /\ TablesIn(higher) \subseteq TablesIn(rd.out)
            /\ Len(higher) <= Len(rd.out)
            /\ \A name \in TablesIn(higher) :
                 ColumnsIn(higher, name) \subseteq ColumnsIn(rd.out, name)

\* C11 witness: a search at 0.5 whose result loses a table and, in a table that
\* stays, a column when the threshold is raised to 0.9
C11Witness ==
    /\ SearchReturned /\ rd.similarity_threshold = 50
    /\ \E higher \in SearchResults(rd.query_text, 90) :
         /\ 0 < Len(higher) /\ Len(higher) < Len(rd.out)
         /\ \E name \in TablesIn(higher) :
              ColumnsIn(higher, name) # ColumnsIn(rd.out, name)

\* the names of the stored tables that have a HAS_COLUMN edge to the column nid
TablesOfColumn(nid) ==
    { NodeAt(gnodes, r.src).name :
        r \in { x \in Matching(gnodes, grels, "table", "HAS_COLUMN", "column") : x.tgt = nid } }

\* the stored foreign-key relationships, each with its two column nodes
StoredForeignKeys ==
    { [source |-> NodeAt(gnodes, r.src), target |-> NodeAt(gnodes, r.tgt)] :
        r \in Matching(gnodes, grels, "column", "HAS_FOREIGN_KEY", "column") }

\* the relationships list a context call has returned: none when it raised
ListedRelationships == IF rd.status = "ok" THEN rd.out.relationships ELSE << >>

\* C12: for context(table_names), every entry of the relationships list has
\* its from_table and its to_table in table_names, and every stored
\* foreign-key edge (declared or inferred) between columns of two requested
\* tables is in the list; an edge to a table outside table_names is not.
C12ContextSubsetFiltering ==
    rd.op = "context"
    => /\ \A k \in 1..Len(ListedRelationships) :
            /\ InList(ListedRelationships[k].from_table, rd.table_names)
            /\ InList(ListedRelationships[k].to_table, rd.table_names)
       /\ \A e \in StoredForeignKeys :
            \A from_table \in TablesOfColumn(e.source.nid), to_table \in TablesOfColumn(e.target.nid) :
               (InList(from_table, rd.table_names) /\ InList(to_table, rd.table_names))
               => \E k \in 1..Len(ListedRelationships) :
                    ListedRelationships[k]
                      = [from_table |-> from_table, from_column |-> e.source.name,
                         to_table |-> to_table, to_column |-> e.target.name]

\* introspect and store of the scenario catalog have run, on an empty store,
\* and nothing else
ScenarioStored ==
    /\ Len(hist) = 1 /\ st.pc = "idle" /\ ipc = "storing"
    /\ cat = ScenarioCatalog
    /\ held = EmptyStore

\* C16: for CUSTOMERS(ID, NAME, CITY) and ORDERS(ID, CUSTOMER_ID, ORDER_DATE)
\* with nothing declared, after introspect and store into an empty store,
\* search("customer orders", 0.6) returns both tables, ORDERS with CUSTOMER_ID
\* among its relevant columns, and context(["ORDERS", "CUSTOMERS"]) lists exactly
\* one relationship, ORDERS.CUSTOMER_ID -> CUSTOMERS.ID.
C16EndToEnd ==
    ScenarioStored
    => /\ hist[1].status = "ok"
       /\ (rd.op = "search" /\ rd.query_text = "customer orders"
              /\ rd.similarity_threshold = 60)
          => /\ TablesIn(rd.out) = { "CUSTOMERS", "ORDERS" }
             /\ Len(rd.out) = 2
             /\ \E col \in ColumnsIn(rd.out, "ORDERS") : col.name = "CUSTOMER_ID"
       /\ (rd.op = "context" /\ rd.table_names = << "ORDERS", "CUSTOMERS" >>)
          => /\ rd.status = "ok"
             /\ rd.out.relationships
                  = << [from_table |-> "ORDERS", from_column |-> "CUSTOMER_ID",
                        to_table |-> "CUSTOMERS", to_column |-> "ID"] >>

\* C19: the list search returns is in non-increasing order of table_score, a
\* table included only for a relevant column being ranked by its table score.
C19SearchOrdering ==
    SearchReturned
    => \A i, j \in 1..Len(rd.out) :
         i < j => rd.out[i].table_score >= rd.out[j].table_score

\* C19 witness: a result whose second table has a table score under the
\* threshold and is there for a relevant column
C19Witness ==
    /\ SearchReturned /\ Len(rd.out) = 2
    /\ rd.out[2].table_score < rd.similarity_threshold
    /\ rd.out[1].table_score > rd.out[2].table_score
    /\ Len(rd.out[2].columns) > 0

-----------------------------------------------------------------------------
(* Reads while a store call is between two of its statements (SpecRead) *)

\* the store contents when the call in progress began
PreReplace == held

\* the whole graph after the replace: the store contents with the nodes of the
\* call's database, or all nodes in single-database mode, and their
\* relationships replaced by the call's graph
PostReplace ==
    CHOOSE replaced \in
      { LoadGraph([gnodes |-> NodesAfterDelete(held.gnodes, gone),
                   grels |-> RelsAfterDelete(held.grels, gone)],
                  [nodes |-> st.nodes, relationships |-> st.relationships]) :
          gone \in { IF multi THEN Owned(held.gnodes, st.db) ELSE held.gnodes } } : TRUE

\* what the read that has just returned gives on the store contents g
ReadResults(g) ==
    IF rd.op = "search"
    THEN { [status |-> "ok",
            out |-> FindRelevantSchema(schema_data, rd.query_text, rd.similarity_threshold)] :
             schema_data \in SearchQuery(g.gnodes, g.grels) }
    ELSE { GetSchemaContext(g.gnodes, g.grels, rd.table_names) }

\* a store call has run its delete and not yet its last statement
MidStore == st.pc \in { "nodes", "rels" }

\* C14: a search or context call that runs between the delete, the node
\* inserts and the relationship inserts of a store call ends as it ends on the
\* whole graph before the replace or on the whole graph after it: with one of
\* the results it has there, and raising only if it raises there.
C14ReadersSeePreOrPost ==
    (rd.op \in { "search", "context" } /\ MidStore)
    => [status |-> rd.status, out |-> rd.out]
         \in ReadResults(PreReplace) \cup ReadResults(PostReplace)

-----------------------------------------------------------------------------
(* Claims about the search endpoint and the search results (SpecRead) *)

\* the tables the database node of database_name has a HAS_TABLE edge to
TablesOfDatabase(database_name) ==
    { NodeAt(gnodes, r.tgt).name :
        r \in { x \in Matching(gnodes, grels, "database", "HAS_TABLE", "table") :
                  NodeAt(gnodes, x.src).name = database_name } }

\* C17: search called with a database_name X is accepted and returns only
\* tables reachable from the database node of X by HAS_TABLE; when two
\* databases are stored, no table that belongs only to the other database is
\* in the result.
C17SearchScoping ==
    rd.op = "search_endpoint"
    => /\ rd.status = "ok"
       /\ \A k \in 1..Len(rd.out) :
            rd.out[k].table_name \in TablesOfDatabase(rd.database_name)

\* the stored column nodes the table nodes named table_name have a HAS_COLUMN edge to
StoredColumns(table_name) ==
    { NodeAt(gnodes, r.tgt) :
        r \in { x \in Matching(gnodes, grels, "table", "HAS_COLUMN", "column") :
                  NodeAt(gnodes, x.src).name = table_name } }

\* the best score of name over the words of the query
NameScore(query_text, name) == MaxScore(Words(Lower(query_text)), name, 1, 0)

\* C18: with no store call in progress, a stored table with at least one
\* column is in the result of search(q, t) exactly when its table score is at
\* least t or one of its columns scores at least t, and a column is in the
\* table's list exactly when its own score is at least t.
C18SearchInclusion ==
    (rd.op = "search" /\ st.pc = "idle")
    => \A tn \in { n \in gnodes : n.type = "table" /\ StoredColumns(n.name) # {} } :
         /\ tn.name \in TablesIn(rd.out)
              <=> \/ NameScore(rd.query_text, tn.name) >= rd.similarity_threshold
                  \/ \E col \in StoredColumns(tn.name) :
                       NameScore(rd.query_text, col.name) >= rd.similarity_threshold
         /\ tn.name \in TablesIn(rd.out)
              => \A col \in StoredColumns(tn.name) :
                   (\E e \in ColumnsIn(rd.out, tn.name) : e.name = col.name)
                   <=> NameScore(rd.query_text, col.name) >= rd.similarity_threshold

-----------------------------------------------------------------------------
(* Two _introspect_and_store_schema background tasks on one event loop: the *)
(* tasks switch at every await, those of the catalog queries of             *)
(* introspect_oracle_schema and those of the statements of                  *)
(* store_schema_in_neo4j                                                    *)

\* the two requests: different database names
ConcurrentCalls ==
    { pair \in TaskCalls \X TaskCalls : pair[1].db # pair[2].db }

\* one task as it enters introspect_oracle_schema
Task(call) ==
    [pc |-> "tables", c |-> call.c, db |-> call.db, nodes |-> << >>,
     relationships |-> << >>, itab |-> 0]

\* introspect_oracle_schema of a task from one awaited catalog query to the
\* next: the tables, the columns of table itab, the primary keys, the foreign
\* keys and what follows them up to the return
IntrospectStep(p) ==
    IF p.pc = "tables"
    THEN [p EXCEPT !.nodes = TableNodes(p.db, p.c),
                   !.relationships = TableRelationships(p.db, p.c),
                   !.itab = 1,
                   !.pc = IF Len(p.c.tables) = 0 THEN "pks" ELSE "columns"]
    ELSE IF p.pc = "columns"
    THEN LET table_name == TableNamesOf(p.nodes)[p.itab]
         IN  [p EXCEPT !.nodes = p.nodes \o ColumnNodes(p.db, p.c, table_name),
                       !.relationships = p.relationships
                                           \o ColumnRelationships(p.db, p.c, table_name),
                       !.itab = p.itab + 1,
                       !.pc = IF p.itab = Len(p.c.tables) THEN "pks" ELSE "columns"]
    ELSE IF p.pc = "pks"
    THEN [p EXCEPT !.nodes = MarkPrimaryKeys(p.nodes, p.db, p.c.pks, 1), !.pc = "fks"]
    ELSE CHOOSE q \in
           { [p EXCEPT !.nodes = g.nodes, !.relationships = g.relationships, !.pc = "done"] :
               g \in { Finish(p.nodes, p.relationships, p.db, p.c.fks, TRUE) } } : TRUE

\* both requests are accepted: two background tasks are on the event loop
TasksBegin ==
    /\ ws = << >>
    /\ \E pair \in ConcurrentCalls : ws' = << Task(pair[1]), Task(pair[2]) >>
    /\ UNCHANGED <<rd, hc, matcher>> /\ UNCHANGED storeVars
    /\ UNCHANGED inferVars /\ UNCHANGED idVars

\* the catalog query task w awaits returns; after the last one
\* introspect_oracle_schema returns and store_schema_in_neo4j is entered
TaskRead(w) ==
    /\ w \in DOMAIN ws /\ ws[w].pc \in { "tables", "columns", "pks", "fks" }
    /\ \E p \in { IntrospectStep(ws[w]) } :
         ws' = [ws EXCEPT ![w] = IF p.pc = "done" THEN [p EXCEPT !.pc = "delete"] ELSE p]
    /\ UNCHANGED <<rd, hc, matcher>> /\ UNCHANGED storeVars
    /\ UNCHANGED inferVars /\ UNCHANGED idVars

\* task w runs its delete statement
TaskDelete(w) ==
    /\ w \in DOMAIN ws /\ ws[w].pc = "delete"
    /\ LET victims == Victims(gnodes, multi, ws[w].db)
       IN  /\ gnodes' = NodesAfterDelete(gnodes, victims)
           /\ grels' = RelsAfterDelete(grels, victims)
    /\ ws' = [ws EXCEPT ![w].pc = AfterDelete(ws[w].nodes, ws[w].relationships),
                        ![w].nodes = SetTimestamp(ws[w].nodes, clock)]
    /\ clock' = clock + 1
    /\ UNCHANGED <<held, multi, st, hist, rd, hc, matcher>>
    /\ UNCHANGED inferVars /\ UNCHANGED idVars

\* task w runs the CREATE statement of its first node: it raises and the task
\* ends, logging the error
TaskCreateNode(w) ==
    /\ w \in DOMAIN ws /\ ws[w].pc = "nodes"
    /\ LET result == CreateNode(gnodes, ws[w].nodes[1])
       IN  /\ result.raised
           /\ gnodes' = result.gnodes
    /\ ws' = [ws EXCEPT ![w].pc = "idle"]
    /\ UNCHANGED <<grels, held, clock, multi, st, hist, rd, hc, matcher>>
    /\ UNCHANGED inferVars /\ UNCHANGED idVars

InitConcurrent ==
    /\ matcher \in Matchers
    /\ held \in Preloads
    /\ gnodes = held.gnodes /\ grels = held.grels /\ clock = 1
    /\ multi = TRUE
    /\ st = IdleStore /\ hist = << >>
    /\ InferIdle /\ IdsIdle /\ ClientsIdle

NextConcurrent ==
    \/ TasksBegin
    \/ \E w \in 1..2 : TaskRead(w)
    \/ \E w \in 1..2 : TaskDelete(w)
    \/ \E w \in 1..2 : TaskCreateNode(w)

SpecConcurrent == InitConcurrent /\ [][NextConcurrent]_vars

\* both tasks have ended
TasksDone == ws # << >> /\ \A w \in DOMAIN ws : ws[w].pc = "idle"

\* C13: in multi-database mode, when store(G1, db1) and store(G2, db2) with
\* db1 # db2 run with their delete, node and relationship statements
\* interleaved in any order, the store ends with exactly the nodes and the
\* relationships of G1 and of G2 under the two names: nothing deleted by the
\* other call, nothing duplicated.
C13ConcurrentStores ==
    TasksDone
    => LET mine == Owned(gnodes, ws[1].db) \cup Owned(gnodes, ws[2].db)
       IN  /\ NodeBag(mine) = GraphNodeBag(ws[1].nodes) (+) GraphNodeBag(ws[2].nodes)
           /\ RelBag(gnodes, Touching(grels, mine))
                = GraphRelBag(ws[1].relationships) (+) GraphRelBag(ws[2].relationships)

-----------------------------------------------------------------------------
(* Claims about introspection with settings.enable_fk_inference off (SpecInfer) *)

\* C20: with inference disabled the graph introspect returns has no edge
\* with inferred = true, every HAS_FOREIGN_KEY edge comes from a row of
\* declared constraints, and a column has is_foreign_key set only when it is
\* the source of a declared foreign key.
C20InferenceFlag ==
    (Returned /\ ~infer)
    => /\ InferredEdges = {}
       /\ \A k \in 1..Len(irels) :
            irels[k].type = "HAS_FOREIGN_KEY"
            => \E j \in 1..Len(cat.fks) : irels[k] = DeclaredForeignKey(idb, cat.fks[j])
       /\ \A k \in ColumnsOf(inodes) :
            inodes[k].properties.is_foreign_key
            => HasDeclaredFrom(inodes[k].properties.table, inodes[k].name)

-----------------------------------------------------------------------------
(* Claims about get_schema_context on names the store does not hold (SpecRead) *)

\* the stored table nodes of a name
StoredTables(table_name) == { n \in gnodes : n.type = "table" /\ n.name = table_name }

\* the requested names with no table node in the store
AbsentNames(table_names) ==
    { table_names[k] : k \in { j \in 1..Len(table_names) : StoredTables(table_names[j]) = {} } }

\* C21: context(table_names) with a requested name absent from the graph
\* does not raise; the absent table is missing from the tables list, and when
\* every requested name is absent both the tables and the relationships list
\* are empty.
C21PermissiveNotFound ==
    (rd.op = "context" /\ AbsentNames(rd.table_names) # {})
    => /\ rd.status = "ok"
       /\ \A k \in 1..Len(rd.out.tables) :
            /\ InList(rd.out.tables[k].table_name, rd.table_names)
            /\ rd.out.tables[k].table_name \notin AbsentNames(rd.table_names)
       /\ AbsentNames(rd.table_names) = { rd.table_names[k] : k \in 1..Len(rd.table_names) }
          => rd.out.tables = << >> /\ rd.out.relationships = << >>

-----------------------------------------------------------------------------
(* Claims about the foreign-key edges of the returned graph (SpecInfer) *)

ForeignKeyEdges == InferredEdges \cup DeclaredEdges

\* C23: in the graph introspect returns each HAS_FOREIGN_KEY edge is either
\* declared (inferred = false, with the constraint_name of a catalog row) or
\* inferred (inferred = true, with inference_method, pattern_used and a
\* confidence between 0.0 and 1.0); none is both, and no inferred edge is
\* without a confidence.
C23DeclaredInferredPartition ==
    Returned
    => \A k \in ForeignKeyEdges :
         LET p == irels[k].properties
         IN  /\ "inferred" \in DOMAIN p /\ p.inferred \in BOOLEAN
             /\ ~p.inferred
                => /\ \E j \in 1..Len(cat.fks) : p.constraint_name = cat.fks[j].constraint_name
                   /\ DOMAIN p \cap { "inference_method", "pattern_used", "confidence" } = {}
             /\ p.inferred
                => /\ { "inference_method", "pattern_used", "confidence" } \subseteq DOMAIN p
                   /\ p.inference_method = "naming_convention"
                   /\ \E pi \in 1..Len(fk_patterns) : p.pattern_used = fk_patterns[pi]
                   /\ 0 <= p.confidence /\ p.confidence <= 100

\* C23 witness: a returned graph with a declared edge and an inferred edge
C23Witness ==
    /\ Returned /\ infer
    /\ DeclaredEdges # {}
    /\ InferredEdges # {}

-----------------------------------------------------------------------------
(* _find_matching_table called on its own: a reference, an ordered list of *)
(* table names, a minimum similarity (in thousandths)                      *)

MaxListed == 2

ResolveNames == { "CUSTOMERS", "DEPARTMENT_ALLOCATION", "DEPARTURES", "ORDER", "ORDERS",
                  "TAXES", "TAXIS" }

References == { "CUSTOMER", "DEPARTMENT", "order", "TAX", "SHIPPING" }

MinSimilarities == { 700, 800 }

\* the lists of at most MaxListed different names, in every order
TableLists ==
    UNION { { list \in [1..n -> ResolveNames] :
                \A i, j \in 1..n : list[i] = list[j] => i = j } : n \in 0..MaxListed }

FindTable(reference, table_names, min_similarity) ==
    /\ hc = NoCall
    /\ hc' = [fn |-> "_find_matching_table", reference |-> reference,
              table_names |-> table_names, min_similarity |-> min_similarity,
              out |-> FindMatchingTable(reference, table_names, min_similarity)]
    /\ UNCHANGED <<ws, rd, matcher>>
    /\ UNCHANGED storeVars /\ UNCHANGED inferVars /\ UNCHANGED idVars

HelperReturn ==
    /\ hc # NoCall
    /\ hc' = NoCall
    /\ UNCHANGED <<ws, rd, matcher>>
    /\ UNCHANGED storeVars /\ UNCHANGED inferVars /\ UNCHANGED idVars

InitResolve ==
    /\ matcher \in Matchers
    /\ StoreIdle /\ InferIdle /\ IdsIdle /\ ClientsIdle

NextResolve ==
    \/ \E reference \in References, table_names \in TableLists, m \in MinSimilarities :
         FindTable(reference, table_names, m)
    \/ HelperReturn

SpecResolve == InitResolve /\ [][NextResolve]_vars

-----------------------------------------------------------------------------
(* Claims about _find_matching_table (SpecResolve) *)

\* the similarity of a reference and a table name, in thousandths
Similarity(reference, table_name) ==
    Score(FuzzRatio(Upper(reference), Upper(table_name)))

\* the score the loop holds a table name at: the similarity, times 1.2 for a
\* table name that contains the reference
BoostedSimilarity(reference, table_name) ==
    IF SubstringBoostApplies(reference, table_name)
    THEN AdjustedScore(FuzzRatio(Upper(reference), Upper(table_name)))
    ELSE Similarity(reference, table_name)

\* the positions of the names equal to the reference, case ignored
ExactAt(reference, table_names) ==
    { k \in 1..Len(table_names) : Upper(table_names[k]) = Upper(reference) }

\* the first position with the highest of `scores` among those at min or more, 0 if none
BestAt(scores, min_similarity) ==
    LET ok == { k \in DOMAIN scores : scores[k] >= min_similarity }
    IN  IF ok = {} THEN 0
        ELSE CHOOSE k \in ok :
               /\ \A j \in ok : scores[j] <= scores[k]
               /\ \A j \in ok : scores[j] = scores[k] => k <= j

\* C25 as stated: the resolver returns the table equal to the reference case
\* ignored if there is one, whatever its position and the scores of the
\* others; otherwise the table with the highest similarity among those
\* meeting the threshold, the first listed on ties; and no table when none
\* meets the threshold.
C25TableResolution ==
    hc.fn = "_find_matching_table"
    => LET names == hc.table_names
           best  == BestAt([k \in 1..Len(names) |-> Similarity(hc.reference, names[k])],
                           hc.min_similarity)
       IN  IF ExactAt(hc.reference, names) # {}
           THEN \E k \in ExactAt(hc.reference, names) : hc.out = names[k]
           ELSE IF best = 0 THEN hc.out = NoTable
           ELSE hc.out = names[best]

\* C25 amended: as stated, with the score of a table name being its
\* similarity times 1.2 when it contains the reference (3 characters or more
\* and more than 30% of the name), and its similarity otherwise: the
\* threshold and the maximum are taken on that score.
C25TableResolutionBoosted ==
    hc.fn = "_find_matching_table"
    => LET names == hc.table_names
           best  == BestAt([k \in 1..Len(names) |->
                              BoostedSimilarity(hc.reference, names[k])],
                           hc.min_similarity)
       IN  IF ExactAt(hc.reference, names) # {}
           THEN \E k \in ExactAt(hc.reference, names) : hc.out = names[k]
           ELSE IF best = 0 THEN hc.out = NoTable
           ELSE hc.out = names[best]

\* C25 witness: DEPARTMENT against DEPARTURES (0.70) and DEPARTMENT_ALLOCATION
\* (0.65, held at 0.78): the second is returned
C25Witness ==
    /\ hc.fn = "_find_matching_table"
    /\ hc.reference = "DEPARTMENT" /\ hc.min_similarity = 700
    /\ hc.table_names = << "DEPARTURES", "DEPARTMENT_ALLOCATION" >>
    /\ Similarity("DEPARTMENT", "DEPARTURES") = 700
    /\ hc.out = "DEPARTMENT_ALLOCATION"

-----------------------------------------------------------------------------
(* Claims about the confidence of the inferred edges (SpecInfer) *)

\* the table a reference of the pass resolves to
Resolved(ref) ==
    FindMatchingTable(ref, TableNamesOf(inodes), fk_inference_similarity_threshold)

\* the score the resolution accepted the table at, clamped at 1.0, in thousandths
AcceptedScore(ref, matched_table) ==
    IF Upper(ref) = Upper(matched_table) THEN 1000
    ELSE Min(BoostedSimilarity(ref, matched_table), 1000)

\* C26: for every inferred edge, the stored confidence equals the score the
\* table match was accepted at during resolution: 1.0 when reference and
\* table are equal case ignored, the similarity boosted as in the resolution
\* and capped at 1.0 when the table name contains the reference, the
\* similarity otherwise.
C26ConfidenceDefinition ==
    (Returned /\ infer)
    => \A case \in RefCases : \A k \in EdgesFor(case) :
         10 * irels[k].properties.confidence = AcceptedScore(case.ref, Resolved(case.ref))

-----------------------------------------------------------------------------
(* Claims about the target column of the inferred edges (SpecInfer) *)

\* the catalog's primary-key flag of a column
IsKey(table, column) ==
    \E k \in 1..Len(cat.pks) : cat.pks[k].table = table /\ cat.pks[k].column = column

\* the first position of `columns` the test holds at, 0 if none
FirstAt(columns, hit) ==
    LET at == { k \in 1..Len(columns) : hit[k] }
    IN  IF at = {} THEN 0 ELSE CHOOSE k \in at : \A j \in at : k <= j

\* the catalog column the claim names as the target in `table`: its position
\* among the table's columns in catalog order, 0 when the table has no column
TargetAt(table) ==
    LET columns == GetColumns(cat, table)
        flagged == FirstAt(columns, [k \in 1..Len(columns) |-> IsKey(table, columns[k])])
        names   == << "ID", table \o "_ID", "ID_" \o table, table \o "ID" >>
        named   == [n \in 1..4 |->
                      FirstAt(columns, [k \in 1..Len(columns) |->
                                          Upper(columns[k]) = Upper(names[n])])]
    IN  IF flagged # 0 THEN flagged
        ELSE IF named[1] # 0 THEN named[1]
        ELSE IF named[2] # 0 THEN named[2]
        ELSE IF named[3] # 0 THEN named[3]
        ELSE IF named[4] # 0 THEN named[4]
        ELSE IF Len(columns) > 0 THEN 1
        ELSE 0

\* the references of the pass that resolve to a table other than the column's
AcceptedCases ==
    { case \in RefCases : AcceptMatch(Resolved(case.ref), case.column.properties.table) }

\* C27: for every accepted match, the target of the inferred edge is the
\* referenced table's first column flagged is_primary_key if one is flagged;
\* otherwise the first column named ID, <table>_ID, ID_<table> or <table>ID,
\* case ignored, the names tried in that order; otherwise the table's first
\* column in catalog order; and there is no edge when the table has no column.
C27PrimaryKeyTarget ==
    (Returned /\ infer)
    => \A case \in AcceptedCases :
         LET table == Resolved(case.ref)
             at    == TargetAt(table)
         IN  IF at = 0 THEN EdgesFor(case) = {}
             ELSE \A k \in EdgesFor(case) :
                    irels[k].target_id = ColumnId(idb, table, GetColumns(cat, table)[at])

\* C27 witness: TAX_RATES.VENDOR_ID resolves to VENDORS, whose flagged column
\* BADGE is neither its first column nor its column named ID, and the edge
\* goes to it
C27Witness ==
    /\ Returned /\ infer
    /\ IsKey("VENDORS", "BADGE")
    /\ \E case \in AcceptedCases :
         /\ case.column.id = ColumnId(idb, "TAX_RATES", "VENDOR_ID")
         /\ Resolved(case.ref) = "VENDORS"
         /\ \E k \in EdgesFor(case) :
              irels[k].target_id = ColumnId(idb, "VENDORS", "BADGE")

-----------------------------------------------------------------------------
(* Claims about the endpoints of the returned relationships (SpecInfer) *)

NodeIds(nodes) == { nodes[k].id : k \in 1..Len(nodes) }

\* C28: in every graph the pass returns, the source_id and the target_id of
\* every relationship (HAS_TABLE, HAS_COLUMN, declared and inferred
\* HAS_FOREIGN_KEY) are ids of nodes of the graph's node list, also when a
\* declared foreign key references a table outside the schema filter.
C28ReferentialIntegrity ==
    Returned
    => \A k \in 1..Len(irels) :
         /\ irels[k].source_id \in NodeIds(inodes)
         /\ irels[k].target_id \in NodeIds(inodes)

-----------------------------------------------------------------------------
(* Claims about the matches the pass keeps (SpecInfer) *)

\* the id of the target column of an accepted match, "" when its table has no column
TargetId(case) ==
    LET table == Resolved(case.ref)
    IN  IF TargetAt(table) = 0 THEN ""
        ELSE ColumnId(idb, table, GetColumns(cat, table)[TargetAt(table)])

\* the (column, target column) pairs of the accepted matches whose table has
\* a target column
MatchPairs ==
    { pair \in { << case.column.id, TargetId(case) >> : case \in AcceptedCases } :
        pair[2] # "" }

DeclaredPairs == { << irels[k].source_id, irels[k].target_id >> : k \in DeclaredEdges }
InferredPairs == { << irels[k].source_id, irels[k].target_id >> : k \in InferredEdges }

Joins(k, source_id, target_id) ==
    irels[k].source_id = source_id /\ irels[k].target_id = target_id

\* C29 as stated: for every column and every pattern the column matches, if
\* the reference resolves to an accepted table other than the column's own
\* and that table has a target column, the returned graph contains an
\* inferred HAS_FOREIGN_KEY edge from the column to that target column.
C29AllMatchesKept ==
    (Returned /\ infer) => \A pair \in MatchPairs : pair \in InferredPairs

\* C29 amended: for every such match the returned graph contains a
\* HAS_FOREIGN_KEY edge from the column to the target column: the declared
\* one when the catalog declares a foreign key between the two, an inferred
\* one otherwise; and the inferred edges leaving a column are one per
\* distinct target that no declared key of the column reaches.
C29AllMatchesKeptOrDeclared ==
    (Returned /\ infer)
    => LET matches  == MatchPairs
           declared == DeclaredPairs
       IN  /\ \A pair \in matches :
                IF pair \in declared THEN pair \notin InferredPairs
                ELSE pair \in InferredPairs
           /\ \A c \in ColumnsOf(inodes) :
                Cardinality({ k \in InferredEdges : irels[k].source_id = inodes[c].id })
                  = Cardinality({ pair \in matches \ declared : pair[1] = inodes[c].id })

\* C29 witness: SHIPPING_ITEMS.TAX_ID has an inferred edge to TAXES.ID for the
\* reference TAX of {table}_ID and one to TAX_RATES.RATE for the reference
\* TAX_ of {table}ID
C29Witness ==
    /\ Returned /\ infer
    /\ \E j, k \in InferredEdges :
         /\ Joins(j, ColumnId(idb, "SHIPPING_ITEMS", "TAX_ID"), ColumnId(idb, "TAXES", "ID"))
         /\ irels[j].properties.pattern_used = "{table}_ID"
         /\ Joins(k, ColumnId(idb, "SHIPPING_ITEMS", "TAX_ID"),
                  ColumnId(idb, "TAX_RATES", "RATE"))
         /\ irels[k].properties.pattern_used = "{table}ID"

-----------------------------------------------------------------------------
(* Claims about the confidence and the threshold (SpecInfer) *)

\* C30: every inferred HAS_FOREIGN_KEY edge of the returned graph carries a
\* confidence at or above the inference threshold its table match was
\* accepted with: no inferred edge is in the low-confidence bucket.
C30ConfidenceAtLeastThreshold ==
    Returned
    => \A k \in InferredEdges :
         10 * irels[k].properties.confidence >= fk_inference_similarity_threshold

=============================================================================
